---- MODULE Spec2Model ----
(***************************************************************************)
(* Model of the checklist (STIG .ckl) to HDF conversion of heimdall2's     *)
(* hdf-converters library: the field transformers of the checklist mapper  *)
(* (transformImpact, findSeverity, getStatus, parseFindingDetails), the   *)
(* construction of ChecklistResults and the multi-STIG aggregation of its  *)
(* toHdf, alone, repeated and interleaved with another conversion; of the  *)
(* abilities the backend's CaslAbilityFactory builds; and of the frontend  *)
(* stores: the Search module with the status switches, the selections of   *)
(* FilteredData, and its controls getter with filter_cache_key,            *)
(* filterControlsBy and count_severities.                                  *)
(*                                                                         *)
(* A JavaScript string is modelled as a sequence of one-character strings, *)
(* so that split, indexOf, slice and toLowerCase are computed, not assumed.*)
(***************************************************************************)
EXTENDS Integers, Sequences, FiniteSets, TLC

VARIABLES
    pfPhase,      \* parseFindingDetails: "idle" | "called" | "returned" | "threw"
    pfFindings,   \* parseFindingDetails: the input array of findings
    pfResults,    \* parseFindingDetails: the returned array of results
    tiPhase,      \* transformImpact: "idle" | "called" | "returned" | "threw"
    tiVuln,       \* transformImpact: the ChecklistVuln argument
    tiImpact,     \* transformImpact: the value returned
    gsPhase,      \* getStatus: "idle" | "called" | "returned"
    gsInput,      \* getStatus: the string argument
    gsOutput,     \* getStatus: the ExecJSON.ControlResultStatus returned
    checklistObject,  \* ChecklistResults.checklistObject
    hdfPc,        \* ChecklistResults.toHdf: the statement about to run
    original,     \* toHdf: the execution the mapper returned, mutated in place
    parent_profile,   \* toHdf: the parent profile being built
    hdfIndex,     \* toHdf: position of the for-of loop in original.profiles
    hdfResult,    \* toHdf: the execution returned
    hdfRaw,       \* ChecklistResults.raw: the parsed checklist given to the constructor
    hdfPrev,      \* the execution the previous conversion of this input returned
    hdfRuns,      \* number of the conversion of this input that is running
    conv,         \* interleaved conversions: the state of each conversion
    parentCells,  \* interleaved conversions: the parent_profile object of each call
    caslPc,       \* CaslAbilityFactory: "idle" | "start" | "built" | "asked"
    caslUser,     \* CaslAbilityFactory: the user the ability is built for
    ability,      \* CaslAbilityFactory: the rules of the ability built
    caslQuery,    \* the last ability.can(action, subject) asked
    caslAnswer,   \* the answer to caslQuery
    search,       \* Search module: its Vuex state
    switches,     \* data_filters: the four exported *FilterEnabled flags
    fd,           \* FilteredData module: its Vuex state
    dataStore,    \* InspecDataModule: the ids of the loaded files, by kind
    ctlData,      \* InspecDataModule: the contextualized controls of the loaded files
    localCache,   \* FilteredData.controls: the LRU cache of the getter's closure
    ctlCalls      \* the calls made to the control filters, with what they returned

pfVars == <<pfPhase, pfFindings, pfResults>>
tiVars == <<tiPhase, tiVuln, tiImpact>>
gsVars == <<gsPhase, gsInput, gsOutput>>
hdfRunVars == <<hdfRaw, hdfPrev, hdfRuns>>
hdfVars == <<checklistObject, hdfPc, original, parent_profile, hdfIndex, hdfResult, hdfRunVars>>
concVars == <<conv, parentCells>>
caslVars == <<caslPc, caslUser, ability, caslQuery, caslAnswer>>

searchVars == <<search, switches>>
selVars == <<fd, dataStore>>
ctlVars == <<ctlData, localCache, ctlCalls>>
feVars == <<searchVars, selVars, ctlVars>>

vars == <<pfVars, tiVars, gsVars, hdfVars, concVars, caslVars, feVars>>

-----------------------------------------------------------------------------
(* Bounds of the model                                                     *)

\* Most pieces (a character, a newline, the word "expected") in the text that
\* follows a segment's first line.
MaxBody == 4

\* Most separator-delimited segments in a generated finding-details string.
MaxSegments == 2

\* Longest generated status string over the letters of "open".
MaxStatusLen == 4

\* Most STIG blocks in a generated checklist, and most vulns in one of them.
MaxStigs == 3
MaxVulns == 2
\* Conversions of one input in a run.
MaxRuns == 2
\* Most STIG blocks in a checklist of the interleaved conversions.
MaxConcStigs == 2
\* Ids of the users that sign in, own records and belong to groups.
MaxUsers == 2

-----------------------------------------------------------------------------
(* JavaScript values and strings                                           *)

\* The JavaScript values undefined and null; no string is equal to either,
\* a string being a sequence of one-character strings.
Undefined == <<"undefined">>
Null == <<"null">>

EmptyStr == <<>>

NL == "\n"

\* A value is truthy unless it is undefined, null or the empty string.
Truthy(v) == v # Undefined /\ v # Null /\ v # EmptyStr

Min(a, b) == IF a < b THEN a ELSE b
Max(a, b) == IF a > b THEN a ELSE b

\* String.prototype.indexOf(pat): the 0-based index of the first occurrence
\* of pat in s, or -1.
IndexOf(s, pat) ==
    LET hits == {i \in 0..(Len(s) - Len(pat)) :
                    SubSeq(s, i + 1, i + Len(pat)) = pat}
    IN  IF hits = {} THEN -1
        ELSE CHOOSE i \in hits : \A j \in hits : i <= j

\* String.prototype.slice(from, to), with JavaScript's treatment of negative
\* and out-of-range 0-based indices.
Slice(s, from, to) ==
    LET n == Len(s)
        f == IF from < 0 THEN Max(n + from, 0) ELSE Min(from, n)
        t == IF to < 0 THEN Max(n + to, 0) ELSE Min(to, n)
    IN  SubSeq(s, f + 1, t)

\* String.prototype.slice(from).
SliceFrom(s, from) == Slice(s, from, Len(s))

\* String.prototype.split(sep) for a non-empty string separator: the pieces
\* between the non-overlapping occurrences of sep, left to right.
RECURSIVE SplitStr(_, _)
SplitStr(s, sep) ==
    LET i == IndexOf(s, sep)
    IN  IF i < 0 THEN <<s>>
        ELSE <<Slice(s, 0, i)>> \o SplitStr(SliceFrom(s, i + Len(sep)), sep)

\* Concatenation of a sequence of strings.
RECURSIVE Concat(_)
Concat(ss) == IF ss = <<>> THEN <<>> ELSE Head(ss) \o Concat(Tail(ss))

\* Array.prototype.join(sep).
RECURSIVE Join(_, _)
Join(ss, sep) ==
    IF ss = <<>> THEN <<>>
    ELSE IF Len(ss) = 1 THEN ss[1]
    ELSE ss[1] \o sep \o Join(Tail(ss), sep)

\* All sequences over S of length at most n.
SeqsUpTo(S, n) == UNION {[1..k -> S] : k \in 0..n}

\* The letters of the model's strings that have an upper-case form, as
\* <<upper, lower>> pairs.
CasePairs ==
    { <<"A", "a">>, <<"C", "c">>, <<"D", "d">>, <<"E", "e">>, <<"F", "f">>,
      <<"G", "g">>, <<"H", "h">>, <<"I", "i">>, <<"L", "l">>, <<"M", "m">>,
      <<"N", "n">>, <<"O", "o">>, <<"P", "p">>, <<"R", "r">>, <<"S", "s">>,
      <<"T", "t">>, <<"U", "u">>, <<"W", "w">> }

\* Character.toLowerCase: an upper-case letter becomes its lower-case form,
\* every other character is unchanged.
LowerChar(c) ==
    IF \E p \in CasePairs : p[1] = c
    THEN (CHOOSE p \in CasePairs : p[1] = c)[2]
    ELSE c

\* String.prototype.toLowerCase.
ToLowerCase(s) == [i \in 1..Len(s) |-> LowerChar(s[i])]

-----------------------------------------------------------------------------
(* String literals of the source                                           *)

S_passed == <<"p", "a", "s", "s", "e", "d">>
S_failed == <<"f", "a", "i", "l", "e", "d">>
S_skipped == <<"s", "k", "i", "p", "p", "e", "d">>
S_error == <<"e", "r", "r", "o", "r">>
S_open == <<"o", "p", "e", "n">>
S_notafinding == <<"n", "o", "t", "a", "f", "i", "n", "d", "i", "n", "g">>
S_expected == <<"e", "x", "p", "e", "c", "t", "e", "d">>

\* ExecJSON.ControlResultStatus
Passed == "passed"
Failed == "failed"
Skipped == "skipped"
Error == "error"
ControlResultStatus == {Passed, Failed, Skipped, Error}

\* '--------------------------------\n': 32 dashes and a newline.
SeparatorDashes == 32
Separator == [i \in 1..SeparatorDashes |-> "-"] \o <<NL>>

\* '\nexpected'
ExpectedMarker == <<NL>> \o S_expected

-----------------------------------------------------------------------------
(* getStatus                                                               *)

\* getStatus without input.toLowerCase().
getStatus_CaseSensitive(input) ==
    CASE input = S_notafinding \/ input = S_passed -> Passed
      [] input = S_open \/ input = S_failed -> Failed
      [] input = S_error -> Error
      [] OTHER -> Skipped

getStatus(input) ==
    LET status == ToLowerCase(input)
    IN  CASE status = S_notafinding \/ status = S_passed -> Passed
          [] status = S_open \/ status = S_failed -> Failed
          [] status = S_error -> Error
          [] OTHER -> Skipped

-----------------------------------------------------------------------------
(* parseFindingDetails                                                     *)

statusSet == {S_passed, S_failed, S_skipped, S_error}

\* details.split(/\n(.*)/s, 2): the text before the first newline and, when
\* there is a newline, the text after it (the capture of the dot-all group,
\* which runs to the end of the string). Without a newline the array has one
\* element, and the destructured descAndMessage is undefined.
SplitFirstLine(details) ==
    LET i == IndexOf(details, <<NL>>)
    IN  IF i < 0 THEN <<details>>
        ELSE <<Slice(details, 0, i), SliceFrom(details, i + 1)>>

\* A status-word test that ignores case.
IsStatusWord_IgnoringCase(findingStatus) == ToLowerCase(findingStatus) \in statusSet

\* statusSet.includes(findingStatus): an exact, case-sensitive match.
IsStatusWord(findingStatus) == findingStatus \in statusSet

\* indexOfExpected > 0: the marker counts only when it is not at index 0.
MarkerFound(indexOfExpected) == indexOfExpected > 0

\* The result of a status segment with the marker at indexOfExpected:
\* code_desc = descAndMessage.slice(0, indexOfExpected - 1),
\* message = descAndMessage.slice(indexOfExpected).
MarkerResult(findingStatus, descAndMessage, indexOfExpected) ==
    [code_desc |-> Slice(descAndMessage, 0, indexOfExpected - 1),
     status |-> getStatus(findingStatus),
     message |-> LET message == SliceFrom(descAndMessage, indexOfExpected)
                 IN  IF Truthy(message) THEN message ELSE Null,
     start_time |-> EmptyStr]

\* A no-marker result that keeps the first line in code_desc.
NoMarkerResult_WholeSegment(findingStatus, descAndMessage) ==
    [code_desc |-> findingStatus \o <<NL>> \o descAndMessage,
     status |-> getStatus(findingStatus),
     message |-> Null,
     start_time |-> EmptyStr]

\* The result of a status segment without the marker.
NoMarkerResult(findingStatus, descAndMessage) ==
    [code_desc |-> descAndMessage,
     status |-> getStatus(findingStatus),
     message |-> Null,
     start_time |-> EmptyStr]

\* The result of a segment whose first line is no status word.
FallbackResult(details, finding) ==
    [code_desc |-> details,
     status |-> finding.status,
     message |-> Null,
     start_time |-> EmptyStr]

\* The body of the inner loop for one segment: the result it pushes, or the
\* TypeError of calling indexOf on undefined.
ParseSegment(details, finding) ==
    LET parts == SplitFirstLine(details)
        findingStatus == parts[1]
        descAndMessage == IF Len(parts) >= 2 THEN parts[2] ELSE Undefined
    IN  IF IsStatusWord(findingStatus)
        THEN IF descAndMessage = Undefined
             THEN [threw |-> TRUE]
             ELSE LET indexOfExpected == IndexOf(descAndMessage, ExpectedMarker)
                  IN  IF MarkerFound(indexOfExpected)
                      THEN [threw |-> FALSE,
                            result |-> MarkerResult(findingStatus, descAndMessage,
                                                    indexOfExpected)]
                      ELSE [threw |-> FALSE,
                            result |-> NoMarkerResult(findingStatus, descAndMessage)]
        ELSE [threw |-> FALSE, result |-> FallbackResult(details, finding)]

\* The outer loop body for one finding: one outcome per segment of a truthy
\* code_desc, and otherwise the finding itself, pushed unchanged.
ParseFinding(finding) ==
    IF Truthy(finding.code_desc)
    THEN LET segs == SplitStr(finding.code_desc, Separator)
         IN  [i \in 1..Len(segs) |-> ParseSegment(segs[i], finding)]
    ELSE <<[threw |-> FALSE, result |-> finding]>>

\* parseFindingDetails(input): the results in push order, or a throw when
\* any segment throws (nothing is returned then).
parseFindingDetails(input) ==
    LET outcomes == Concat([k \in 1..Len(input) |-> ParseFinding(input[k])])
    IN  IF \E i \in 1..Len(outcomes) : outcomes[i].threw
        THEN [threw |-> TRUE, results |-> <<>>]
        ELSE [threw |-> FALSE,
              results |-> [i \in 1..Len(outcomes) |-> outcomes[i].result]]

-----------------------------------------------------------------------------
(* Inputs of parseFindingDetails                                           *)

\* The finding the mapper hands to the array transformer:
\* {status, code_desc, start_time: ''}.
Finding(code_desc, status) ==
    [code_desc |-> code_desc, status |-> status, start_time |-> EmptyStr]

S_Passed == <<"P", "a", "s", "s", "e", "d">>

\* First lines: the four status words, a capitalised one, a plain character,
\* and nothing.
FirstLines == statusSet \cup {S_Passed, <<"a">>, EmptyStr}

BodyPieces == {<<"a">>, <<NL>>, S_expected}

Bodies == {Concat(ps) : ps \in SeqsUpTo(BodyPieces, MaxBody)}

\* One segment: a first line alone, or a first line, a newline and a body.
RichSegments == FirstLines \cup {h \o <<NL>> \o b : h \in FirstLines, b \in Bodies}

SmallSegments ==
    { S_passed \o <<NL, "a", NL>>,
      S_failed \o <<NL, "a", NL>> \o ExpectedMarker \o <<"a">>,
      S_passed,
      <<"a">>,
      EmptyStr,
      S_Passed \o <<NL, "a">> }

MultiSegmentStrings ==
    {Join(ss, Separator) : ss \in UNION {[1..k -> SmallSegments] : k \in 2..MaxSegments}}

\* "passed\nfoo bar\n--------------------------------\nfailed\nbaz\nexpected: 1\nactual: 2"
SpecExample ==
    S_passed \o <<NL, "f", "o", "o", " ", "b", "a", "r", NL>> \o Separator
    \o S_failed \o <<NL, "b", "a", "z", NL>> \o S_expected
    \o <<":", " ", "1", NL, "a", "c", "t", "u", "a", "l", ":", " ", "2">>

FindingInputs ==
    {<<Finding(s, st)>> : s \in RichSegments \cup {Undefined}, st \in ControlResultStatus}
    \cup {<<Finding(s, Skipped)>> : s \in MultiSegmentStrings \cup {SpecExample}}
    \cup {<<Finding(s, Passed), Finding(t, Failed)>> : s, t \in SmallSegments}

-----------------------------------------------------------------------------
(* The frontend stores as they are constructed                             *)

\* The empty array.
EmptyArray == <<>>

\* Search: the fields of the module and the values they start with.
SearchState ==
    [ controlIdSearchTerms |-> EmptyArray,
      codeSearchTerms |-> EmptyArray,
      ruleidSearchTerms |-> EmptyArray,
      vulidSearchTerms |-> EmptyArray,
      stigidSearchTerms |-> EmptyArray,
      classificationSearchTerms |-> EmptyArray,
      groupNameSearchTerms |-> EmptyArray,
      cciSearchTerms |-> EmptyArray,
      NISTIdFilter |-> EmptyArray,
      descriptionSearchTerms |-> EmptyArray,
      freeSearch |-> EmptyStr,
      searchTerm |-> EmptyStr,
      statusFilter |-> EmptyArray,
      severityFilter |-> EmptyArray,
      titleSearchTerms |-> EmptyArray ]

\* data_filters: the four switch flags, all false when the module is loaded.
FilterEnabledFlags ==
    [ passedFilterEnabled |-> FALSE, failedFilterEnabled |-> FALSE,
      naFilterEnabled |-> FALSE, nrFilterEnabled |-> FALSE ]

\* FilteredData.emptyRule: the ChecklistVuln with every field ''. Of a rule
\* the model keeps its vulnNum and, as file, the id of the checklist file
\* it was read from (0 for the empty rule, which belongs to none).
emptyRule == [vulnNum |-> EmptyStr, file |-> 0]

\* FilteredData: the selections the module starts with.
FilteredDataState ==
    [ selectedEvaluationIds |-> EmptyArray,
      selectedProfileIds |-> EmptyArray,
      selectedChecklistIds |-> EmptyArray,
      selectedRule |-> emptyRule ]

\* InspecDataModule before any file is loaded.
NoFiles ==
    [ allEvaluationFiles |-> EmptyArray, allProfileFiles |-> EmptyArray,
      allChecklistFiles |-> EmptyArray ]

SearchIdle == search = SearchState /\ switches = FilterEnabledFlags
SelIdle == fd = FilteredDataState /\ dataStore = NoFiles
CtlIdle == ctlData = <<>> /\ localCache = <<>> /\ ctlCalls = <<>>
FeIdle == SearchIdle /\ SelIdle /\ CtlIdle

-----------------------------------------------------------------------------
(* Specification of parseFindingDetails                                    *)

PfIdle == pfPhase = "idle" /\ pfFindings = <<>> /\ pfResults = <<>>
TiIdle == tiPhase = "idle" /\ tiVuln = <<>> /\ tiImpact = <<>>
GsIdle == gsPhase = "idle" /\ gsInput = <<>> /\ gsOutput = ""
HdfIdle ==
    /\ checklistObject = <<>> /\ hdfPc = "idle" /\ original = <<>>
    /\ parent_profile = <<>> /\ hdfIndex = 0 /\ hdfResult = <<>>
    /\ hdfRaw = <<>> /\ hdfPrev = <<>> /\ hdfRuns = 0
ConcIdle == conv = <<>> /\ parentCells = <<>>
CaslIdle ==
    /\ caslPc = "idle" /\ caslUser = <<>> /\ ability = <<>>
    /\ caslQuery = <<>> /\ caslAnswer = FALSE

InitParse ==
    /\ pfPhase = "called"
    /\ pfFindings \in FindingInputs
    /\ pfResults = <<>>
    /\ TiIdle /\ GsIdle /\ HdfIdle /\ ConcIdle /\ CaslIdle /\ FeIdle

ParseFindingDetails ==
    /\ pfPhase = "called"
    /\ LET out == parseFindingDetails(pfFindings)
       IN  /\ pfPhase' = IF out.threw THEN "threw" ELSE "returned"
           /\ pfResults' = out.results
    /\ UNCHANGED <<pfFindings, tiVars, gsVars, hdfVars, concVars, caslVars, feVars>>

NextParse == ParseFindingDetails

SpecParse == InitParse /\ [][NextParse]_vars

-----------------------------------------------------------------------------
(* transformImpact                                                         *)

S_high == <<"h", "i", "g", "h">>
S_medium == <<"m", "e", "d", "i", "u", "m">>
S_low == <<"l", "o", "w">>
S_Not_Applicable ==
    <<"N", "o", "t", " ", "A", "p", "p", "l", "i", "c", "a", "b", "l", "e">>

\* A JavaScript number, kept in tenths (0.7 is Num(7)), and the other values
\* transformImpact can evaluate to.
Num(tenths) == [kind |-> "number", tenths |-> tenths]
Str(s) == [kind |-> "string", value |-> s]
UndefinedValue == [kind |-> "undefined"]
TypeError == [kind |-> "TypeError"]

\* obj[key] of a JavaScript object: undefined when obj has no such property.
GetField(obj, key) == IF key \in DOMAIN obj THEN obj[key] ELSE Undefined

\* ImpactMapping[key]. A numeric TypeScript enum is compiled to an object that
\* maps each name to its number and each number (as a string) back to its
\* name; any other key is undefined.
ImpactMapping(key) ==
    CASE key = S_high -> Num(7)
      [] key = S_medium -> Num(5)
      [] key = S_low -> Num(3)
      [] key = <<"0", ".", "7">> -> Str(S_high)
      [] key = <<"0", ".", "5">> -> Str(S_medium)
      [] key = <<"0", ".", "3">> -> Str(S_low)
      [] OTHER -> UndefinedValue

\* findSeverity reads the property severityoverride, all in lower case.
findSeverity(vuln) ==
    IF Truthy(GetField(vuln, "severityoverride"))
    THEN GetField(vuln, "severityoverride")
    ELSE GetField(vuln, "severity")

\* transformImpact without its 'Not Applicable' check.
transformImpact_NoNotApplicableCheck(vuln) ==
    LET severity == findSeverity(vuln)
    IN  IF severity = Undefined \/ severity = Null THEN TypeError
        ELSE ImpactMapping(ToLowerCase(severity))

\* severity.toString().toLowerCase() throws a TypeError on undefined.
transformImpact(vuln) ==
    IF GetField(vuln, "status") = S_Not_Applicable THEN Num(0)
    ELSE LET severity == findSeverity(vuln)
         IN  IF severity = Undefined \/ severity = Null THEN TypeError
             ELSE ImpactMapping(ToLowerCase(severity))

-----------------------------------------------------------------------------
(* Inputs of transformImpact and getStatus                                 *)

UpperChar(c) ==
    IF \E p \in CasePairs : p[2] = c
    THEN (CHOOSE p \in CasePairs : p[2] = c)[1]
    ELSE c

\* Every way of writing the lower-case word w in mixed case.
CaseVariants(w) ==
    {[i \in 1..Len(w) |-> IF up[i] THEN UpperChar(w[i]) ELSE w[i]] :
        up \in [1..Len(w) -> BOOLEAN]}

S_critical == <<"c", "r", "i", "t", "i", "c", "a", "l">>
S_Open == <<"O", "p", "e", "n">>
S_NotAFinding == <<"N", "o", "t", "A", "F", "i", "n", "d", "i", "n", "g">>
S_Not_Reviewed == <<"N", "o", "t", "_", "R", "e", "v", "i", "e", "w", "e", "d">>
S_N_A == <<"N", "/", "A">>

\* The STATUS values of a checklist, and "Not Applicable" in lower case.
VulnStatusInputs ==
    {S_Not_Applicable, ToLowerCase(S_Not_Applicable), S_Open, S_NotAFinding,
     S_Not_Reviewed}

SeverityInputs ==
    CaseVariants(S_high) \cup CaseVariants(S_medium) \cup CaseVariants(S_low)
    \cup {EmptyStr, S_critical, <<"0", ".", "7">>, Undefined}

SeverityOverrideInputs ==
    {EmptyStr, S_low, <<"H", "i", "g", "h">>, ToLowerCase(S_medium), S_critical}

\* A ChecklistVuln, with the property names of the type: the fields the
\* transformers read, the others being of no effect on them.
ChecklistVuln(status, severity, severityOverride) ==
    [status |-> status, severity |-> severity, severityOverride |-> severityOverride]

VulnInputs ==
    {ChecklistVuln(st, sev, ov) :
        st \in VulnStatusInputs, sev \in SeverityInputs, ov \in SeverityOverrideInputs}

StatusInputs ==
    CaseVariants(S_notafinding) \cup CaseVariants(S_passed) \cup CaseVariants(S_open)
    \cup CaseVariants(S_failed) \cup CaseVariants(S_error)
    \cup {S_N_A, S_Not_Reviewed, S_Not_Applicable, S_skipped}
    \cup SeqsUpTo({"o", "p", "e", "n", "O"}, MaxStatusLen)

-----------------------------------------------------------------------------
(* Specifications of transformImpact and getStatus                         *)

InitImpact ==
    /\ tiPhase = "called"
    /\ tiVuln \in VulnInputs
    /\ tiImpact = <<>>
    /\ PfIdle /\ GsIdle /\ HdfIdle /\ ConcIdle /\ CaslIdle /\ FeIdle

TransformImpact ==
    /\ tiPhase = "called"
    /\ LET out == transformImpact(tiVuln)
       IN  /\ tiPhase' = IF out = TypeError THEN "threw" ELSE "returned"
           /\ tiImpact' = out
    /\ UNCHANGED <<tiVuln, pfVars, gsVars, hdfVars, concVars, caslVars, feVars>>

NextImpact == TransformImpact

SpecImpact == InitImpact /\ [][NextImpact]_vars

InitStatus ==
    /\ gsPhase = "called"
    /\ gsInput \in StatusInputs
    /\ gsOutput = ""
    /\ PfIdle /\ TiIdle /\ HdfIdle /\ ConcIdle /\ CaslIdle /\ FeIdle

GetStatus ==
    /\ gsPhase = "called"
    /\ gsPhase' = "returned"
    /\ gsOutput' = getStatus(gsInput)
    /\ UNCHANGED <<gsInput, pfVars, tiVars, hdfVars, concVars, caslVars, feVars>>

NextStatus == GetStatus

SpecStatus == InitStatus /\ [][NextStatus]_vars

-----------------------------------------------------------------------------
(* ChecklistMapper: the mapping of a checklist object to an execution      *)

HeimdallToolsVersion == "version"

\* One element of mappings.profiles[0].controls: the control of a vuln. Its
\* results are parseFindingDetails of the single finding {status, code_desc,
\* start_time}, whose code_desc is looked up at the path 'findingdetails'.
MapControl(vuln) ==
    [id |-> GetField(vuln, "vulnNum"),
     title |-> GetField(vuln, "ruleTitle"),
     impact |-> transformImpact(vuln),
     results |-> parseFindingDetails(
                    <<Finding(GetField(vuln, "findingdetails"),
                              getStatus(GetField(vuln, "status")))>>).results]

\* mappings.profiles[0]: the profile of a STIG, its controls the controls of
\* the STIG's vulns in order, its sha256 the literal ''.
MapProfile(stig) ==
    [name |-> stig.header.title,
     version |-> stig.header.version,
     title |-> stig.header.title,
     supports |-> <<>>,
     attributes |-> <<>>,
     groups |-> <<>>,
     status |-> "loaded",
     controls |-> [j \in 1..Len(stig.vulns) |-> MapControl(stig.vulns[j])],
     sha256 |-> EmptyStr]

\* generateHash(text): a hash is modelled by the text it is the hash of, so
\* two hashes are equal exactly when the hashed texts are.
generateHash(text) == [sha256Of |-> text]

\* JSON.stringify(value): the value itself; a property that was never
\* assigned is no field of the record, as it is no key of the JSON text.
JSONstringify(value) == value

\* A walk that yields the profiles in the reverse of the order of stigs.
BaseConverterToHdf_Reversed(data) ==
    [platform |-> [name |-> "Heimdall Tools", release |-> HeimdallToolsVersion],
     version |-> HeimdallToolsVersion,
     profiles |-> [i \in 1..Len(data.stigs) |->
                     LET profile == MapProfile(data.stigs[Len(data.stigs) + 1 - i])
                     IN  [profile EXCEPT
                            !.sha256 = generateHash(JSONstringify(profile.controls))]]]

\* BaseConverter.toHdf: the mapping walked over the checklist object, one
\* profile per element of stigs in order, each then given the hash of its
\* serialized controls.
BaseConverterToHdf(data) ==
    [platform |-> [name |-> "Heimdall Tools", release |-> HeimdallToolsVersion],
     version |-> HeimdallToolsVersion,
     profiles |-> [i \in 1..Len(data.stigs) |->
                     LET profile == MapProfile(data.stigs[i])
                     IN  [profile EXCEPT
                            !.sha256 = generateHash(JSONstringify(profile.controls))]]]

-----------------------------------------------------------------------------
(* ChecklistResults.toHdf                                                  *)

parentProfileName == "Parent Profile"

\* The parent profile as first built.
NewParentProfile ==
    [name |-> parentProfileName,
     version |-> HeimdallToolsVersion,
     supports |-> <<>>,
     attributes |-> <<>>,
     groups |-> <<>>,
     depends |-> <<>>,
     controls |-> <<>>,
     sha256 |-> EmptyStr]

\* A depends push that puts the new entry first.
PushDepends_AtFront(parent, profile) ==
    [parent EXCEPT !.depends = <<[name |-> profile.name]>> \o @]

\* parent_profile.depends?.push({name: profile.name})
PushDepends(parent, profile) ==
    [parent EXCEPT !.depends = Append(@, [name |-> profile.name])]

\* A controls push that drops the first control of the profile.
PushControls_DropFirst(parent, profile) ==
    [parent EXCEPT !.controls =
        @ \o (IF profile.controls = <<>> THEN <<>> ELSE Tail(profile.controls))]

\* parent_profile.controls.push(...profile.controls)
PushControls(parent, profile) ==
    [parent EXCEPT !.controls = @ \o profile.controls]

\* obj[key] = value, which adds the property when obj has none.
SetField(obj, key, value) ==
    [f \in DOMAIN obj \cup {key} |-> IF f = key THEN value ELSE obj[f]]

\* The error of a checklist that lacks a required top-level section.
MalformedChecklistError == [error |-> "MalformedChecklistError"]

\* A createChecklistObject that builds the object of any parsed checklist.
createChecklistObject_NoCheck(raw) ==
    [asset |-> GetField(raw, "asset"), stigs |-> raw.stigs]

\* createChecklistObject: the domain object of a parsed checklist, or the
\* error when the checklist has no asset or no STIG block.
createChecklistObject(raw) ==
    IF "asset" \notin DOMAIN raw \/ raw.stigs = <<>>
    THEN MalformedChecklistError
    ELSE [asset |-> raw.asset, stigs |-> raw.stigs]

\* Lines 175-182: the constructor builds the checklist object from the
\* parsed input, or fails.
Constructor ==
    /\ hdfPc = "new"
    /\ LET obj == createChecklistObject(hdfRaw)
       IN  IF obj = MalformedChecklistError
           THEN /\ hdfPc' = "malformed"
                /\ UNCHANGED checklistObject
           ELSE /\ hdfPc' = "called"
                /\ checklistObject' = obj
    /\ UNCHANGED <<original, parent_profile, hdfIndex, hdfResult, hdfRunVars,
                   pfVars, tiVars, gsVars, concVars, caslVars, feVars>>

\* A test that takes every checklist for a single-STIG one.
IsSingleStig_Always(numberOfStigs) == numberOfStigs >= 1

\* Line 186: numberOfStigs === 1
IsSingleStig(numberOfStigs) == numberOfStigs = 1

\* Lines 185-188: a checklist of exactly one STIG returns the mapper's
\* execution as it is.
ToHdfSingle ==
    /\ hdfPc = "called"
    /\ IsSingleStig(Len(checklistObject.stigs))
    /\ hdfResult' = BaseConverterToHdf(checklistObject)
    /\ hdfPc' = "returned"
    /\ UNCHANGED <<checklistObject, original, parent_profile, hdfIndex, hdfRunVars,
                   pfVars, tiVars, gsVars, concVars, caslVars, feVars>>

\* Lines 190-202 with the mapper's execution kept from the conversion before:
\* the record that conversion mutated and returned is mutated again.
ToHdfBegin_MappedOnce ==
    /\ hdfPc = "called"
    /\ ~IsSingleStig(Len(checklistObject.stigs))
    /\ original' = IF hdfRuns > 1 THEN hdfPrev ELSE BaseConverterToHdf(checklistObject)
    /\ parent_profile' = NewParentProfile
    /\ hdfIndex' = 1
    /\ hdfPc' = "loop"
    /\ UNCHANGED <<checklistObject, hdfResult, hdfRunVars,
                   pfVars, tiVars, gsVars, concVars, caslVars, feVars>>

\* Lines 190-202: any other number of STIGs maps the checklist and builds an
\* empty parent profile.
ToHdfBegin ==
    /\ hdfPc = "called"
    /\ ~IsSingleStig(Len(checklistObject.stigs))
    /\ original' = BaseConverterToHdf(checklistObject)
    /\ parent_profile' = NewParentProfile
    /\ hdfIndex' = 1
    /\ hdfPc' = "loop"
    /\ UNCHANGED <<checklistObject, hdfResult, hdfRunVars,
                   pfVars, tiVars, gsVars, concVars, caslVars, feVars>>

\* Line 203: the for-of loop goes to its body or, past the last profile,
\* leaves.
LoopTest ==
    /\ hdfPc = "loop"
    /\ hdfPc' = IF hdfIndex <= Len(original.profiles) THEN "depends" ELSE "parentHash"
    /\ UNCHANGED <<checklistObject, original, parent_profile, hdfIndex, hdfResult,
                   hdfRunVars,
                   pfVars, tiVars, gsVars, concVars, caslVars, feVars>>

\* Line 204.
LoopPushDepends ==
    /\ hdfPc = "depends"
    /\ parent_profile' = PushDepends(parent_profile, original.profiles[hdfIndex])
    /\ hdfPc' = "controls"
    /\ UNCHANGED <<checklistObject, original, hdfIndex, hdfResult, hdfRunVars,
                   pfVars, tiVars, gsVars, concVars, caslVars, feVars>>

\* Line 205.
LoopPushControls ==
    /\ hdfPc = "controls"
    /\ parent_profile' = PushControls(parent_profile, original.profiles[hdfIndex])
    /\ hdfPc' = "parentField"
    /\ UNCHANGED <<checklistObject, original, hdfIndex, hdfResult, hdfRunVars,
                   pfVars, tiVars, gsVars, concVars, caslVars, feVars>>

\* A line 206 that sets the field on the parent profile instead.
LoopSetParentProfile_OnParent ==
    /\ hdfPc = "parentField"
    /\ parent_profile' = SetField(parent_profile, "parent_profile", parentProfileName)
    /\ hdfPc' = "childHash"
    /\ UNCHANGED <<checklistObject, original, hdfIndex, hdfResult, hdfRunVars,
                   pfVars, tiVars, gsVars, concVars, caslVars, feVars>>

\* Line 206: profile.parent_profile = parentProfileName, on the profile
\* object that original.profiles holds.
LoopSetParentProfile ==
    /\ hdfPc = "parentField"
    /\ original' = [original EXCEPT !.profiles[hdfIndex] =
                        SetField(@, "parent_profile", parentProfileName)]
    /\ hdfPc' = "childHash"
    /\ UNCHANGED <<checklistObject, parent_profile, hdfIndex, hdfResult, hdfRunVars,
                   pfVars, tiVars, gsVars, concVars, caslVars, feVars>>

\* obj without the property key.
WithoutField(obj, key) == [f \in DOMAIN obj \ {key} |-> obj[f]]

\* A line 207 whose hash is that of the profile as it was before line 206.
LoopSetHash_BeforeParentField ==
    /\ hdfPc = "childHash"
    /\ LET profile == original.profiles[hdfIndex]
           text == JSONstringify(WithoutField(profile, "parent_profile"))
       IN  original' = [original EXCEPT !.profiles[hdfIndex].sha256 = generateHash(text)]
    /\ hdfIndex' = hdfIndex + 1
    /\ hdfPc' = "loop"
    /\ UNCHANGED <<checklistObject, parent_profile, hdfResult, hdfRunVars,
                   pfVars, tiVars, gsVars, concVars, caslVars, feVars>>

\* Line 207: profile.sha256 = generateHash(JSON.stringify(profile)), the
\* whole profile serialized, and the loop moves on.
LoopSetHash ==
    /\ hdfPc = "childHash"
    /\ LET profile == original.profiles[hdfIndex]
       IN  original' = [original EXCEPT
                          !.profiles[hdfIndex].sha256 = generateHash(JSONstringify(profile))]
    /\ hdfIndex' = hdfIndex + 1
    /\ hdfPc' = "loop"
    /\ UNCHANGED <<checklistObject, parent_profile, hdfResult, hdfRunVars,
                   pfVars, tiVars, gsVars, concVars, caslVars, feVars>>

\* A line 209 that hashes the parent profile's controls alone.
SetParentHash_ControlsOnly ==
    /\ hdfPc = "parentHash"
    /\ parent_profile' =
         [parent_profile EXCEPT
            !.sha256 = generateHash(JSONstringify([controls |-> parent_profile.controls]))]
    /\ hdfPc' = "push"
    /\ UNCHANGED <<checklistObject, original, hdfIndex, hdfResult, hdfRunVars,
                   pfVars, tiVars, gsVars, concVars, caslVars, feVars>>

\* Line 209.
SetParentHash ==
    /\ hdfPc = "parentHash"
    /\ parent_profile' =
         [parent_profile EXCEPT !.sha256 = generateHash(JSONstringify(parent_profile))]
    /\ hdfPc' = "push"
    /\ UNCHANGED <<checklistObject, original, hdfIndex, hdfResult, hdfRunVars,
                   pfVars, tiVars, gsVars, concVars, caslVars, feVars>>

\* Lines 210-211: the parent profile is pushed last and original returned.
PushParentAndReturn ==
    /\ hdfPc = "push"
    /\ original' = [original EXCEPT !.profiles = Append(@, parent_profile)]
    /\ hdfResult' = original'
    /\ hdfPc' = "returned"
    /\ UNCHANGED <<checklistObject, parent_profile, hdfIndex, hdfRunVars,
                   pfVars, tiVars, gsVars, concVars, caslVars, feVars>>

-----------------------------------------------------------------------------
(* Inputs of ChecklistResults.toHdf                                        *)

S_passed_a == S_passed \o <<NL, "a">>

\* Vulns of the kinds a checklist holds; the vuln at a position is one of
\* them, under a vulnNum of its own.
VulnSamples ==
    << [status |-> S_Open, severity |-> S_high, severityOverride |-> S_low,
        findingDetails |-> S_passed_a, ruleTitle |-> "rule"],
       [status |-> S_NotAFinding, severity |-> S_medium, severityOverride |-> EmptyStr,
        findingDetails |-> EmptyStr, ruleTitle |-> "rule"],
       [status |-> S_Not_Applicable, severity |-> S_low, severityOverride |-> EmptyStr,
        findingDetails |-> S_passed, ruleTitle |-> "other rule"] >>

VulnAt(i, j) ==
    SetField(VulnSamples[((i + j) % Len(VulnSamples)) + 1], "vulnNum", <<"V", i, j>>)

StigTitles == {"STIG A", "STIG B"}

Stig(i, title, nVulns) ==
    [header |-> [title |-> title, version |-> "1"],
     vulns |-> [j \in 1..nVulns |-> VulnAt(i, j)]]

\* The checklist of the spec's example: two STIGs of 3 and 5 vulns.
ExampleChecklist ==
    [stigs |-> <<Stig(1, "STIG A", 3), Stig(2, "STIG B", 5)>>]

ChecklistInputs ==
    {[stigs |-> [i \in 1..n |-> Stig(i, titles[i], counts[i])]] :
        n \in 0..MaxStigs, titles \in [1..MaxStigs -> StigTitles],
        counts \in [1..MaxStigs -> 0..MaxVulns]}
    \cup {ExampleChecklist}

-----------------------------------------------------------------------------
\* The asset section of a parsed checklist.
AssetInputs == {[hostName |-> "host"]}

\* Parsed checklists: with or without an asset, with any number of STIG
\* blocks from none.
RawInputs ==
    ChecklistInputs \cup {SetField(c, "asset", a) : c \in ChecklistInputs, a \in AssetInputs}

\* toHdf is called once more on the instance that has returned.
ToHdfAgain ==
    /\ hdfPc = "returned"
    /\ hdfRuns < MaxRuns
    /\ hdfPc' = "called"
    /\ hdfPrev' = hdfResult
    /\ hdfRuns' = hdfRuns + 1
    /\ original' = <<>> /\ parent_profile' = <<>> /\ hdfIndex' = 0 /\ hdfResult' = <<>>
    /\ UNCHANGED <<checklistObject, hdfRaw, pfVars, tiVars, gsVars, concVars, caslVars, feVars>>

\* The same input is converted once more by a new ChecklistResults.
ConvertAgain ==
    /\ hdfPc = "returned"
    /\ hdfRuns < MaxRuns
    /\ hdfPc' = "new"
    /\ hdfPrev' = hdfResult
    /\ hdfRuns' = hdfRuns + 1
    /\ checklistObject' = <<>>
    /\ original' = <<>> /\ parent_profile' = <<>> /\ hdfIndex' = 0 /\ hdfResult' = <<>>
    /\ UNCHANGED <<hdfRaw, pfVars, tiVars, gsVars, concVars, caslVars, feVars>>

-----------------------------------------------------------------------------
(* Specification of ChecklistResults: construction and toHdf               *)

InitHdf ==
    /\ hdfRaw \in RawInputs
    /\ hdfPc = "new"
    /\ checklistObject = <<>>
    /\ original = <<>>
    /\ parent_profile = <<>>
    /\ hdfIndex = 0
    /\ hdfResult = <<>>
    /\ hdfPrev = <<>>
    /\ hdfRuns = 1
    /\ PfIdle /\ TiIdle /\ GsIdle /\ ConcIdle /\ CaslIdle /\ FeIdle

NextHdf ==
    \/ Constructor
    \/ ToHdfAgain
    \/ ConvertAgain
    \/ ToHdfSingle
    \/ ToHdfBegin
    \/ LoopTest
    \/ LoopPushDepends
    \/ LoopPushControls
    \/ LoopSetParentProfile
    \/ LoopSetHash
    \/ SetParentHash
    \/ PushParentAndReturn

SpecHdf == InitHdf /\ [][NextHdf]_vars

-----------------------------------------------------------------------------
(* Two conversions side by side                                            *)

\* The conversions that run interleaved, each a ChecklistResults of its own
\* on an input of its own.
Conversions == {1, 2}

\* A conversion about to construct its ChecklistResults from raw.
NewConversion(raw) ==
    [raw |-> raw, checklistObject |-> <<>>, pc |-> "new", original |-> <<>>,
     index |-> 0, result |-> <<>>]

\* One statement of a conversion in state s whose parent_profile object is
\* parent: the constructor (lines 175-182) or the statement of toHdf (lines
\* 184-211) that s.pc names. Yields the conversion's next state and its
\* parent_profile object.
StepOf(s, parent) ==
    CASE s.pc = "new" ->
           LET obj == createChecklistObject(s.raw)
           IN  IF obj = MalformedChecklistError
               THEN [s |-> [s EXCEPT !.pc = "malformed"], parent |-> parent]
               ELSE [s |-> [s EXCEPT !.pc = "called", !.checklistObject = obj],
                     parent |-> parent]
      [] s.pc = "called" ->
           IF IsSingleStig(Len(s.checklistObject.stigs))
           THEN [s |-> [s EXCEPT !.pc = "returned",
                                 !.result = BaseConverterToHdf(s.checklistObject)],
                 parent |-> parent]
           ELSE [s |-> [s EXCEPT !.pc = "loop", !.index = 1,
                                 !.original = BaseConverterToHdf(s.checklistObject)],
                 parent |-> NewParentProfile]
      [] s.pc = "loop" ->
           [s |-> [s EXCEPT !.pc = IF s.index <= Len(s.original.profiles)
                                   THEN "depends" ELSE "parentHash"],
            parent |-> parent]
      [] s.pc = "depends" ->
           [s |-> [s EXCEPT !.pc = "controls"],
            parent |-> PushDepends(parent, s.original.profiles[s.index])]
      [] s.pc = "controls" ->
           [s |-> [s EXCEPT !.pc = "parentField"],
            parent |-> PushControls(parent, s.original.profiles[s.index])]
      [] s.pc = "parentField" ->
           [s |-> [s EXCEPT !.pc = "childHash",
                            !.original.profiles[s.index] =
                                SetField(@, "parent_profile", parentProfileName)],
            parent |-> parent]
      [] s.pc = "childHash" ->
           LET profile == s.original.profiles[s.index]
           IN  [s |-> [s EXCEPT !.pc = "loop", !.index = @ + 1,
                                !.original.profiles[s.index].sha256 =
                                    generateHash(JSONstringify(profile))],
                parent |-> parent]
      [] s.pc = "parentHash" ->
           [s |-> [s EXCEPT !.pc = "push"],
            parent |-> [parent EXCEPT !.sha256 = generateHash(JSONstringify(parent))]]
      [] s.pc = "push" ->
           LET pushed == [s.original EXCEPT !.profiles = Append(@, parent)]
           IN  [s |-> [s EXCEPT !.pc = "returned", !.original = pushed, !.result = pushed],
                parent |-> parent]

\* A parent_profile object that all conversions share.
ParentCell_Shared(c) == 1

\* Line 193: const parent_profile is a local of the call, so each conversion
\* has a parent_profile object of its own.
ParentCell(c) == c

\* Conversion c runs its next statement.
ConvStep(c) ==
    /\ conv[c].pc \notin {"returned", "malformed"}
    /\ LET next == StepOf(conv[c], parentCells[ParentCell(c)])
       IN  /\ conv' = [conv EXCEPT ![c] = next.s]
           /\ parentCells' = [parentCells EXCEPT ![ParentCell(c)] = next.parent]
    /\ UNCHANGED <<pfVars, tiVars, gsVars, hdfVars, caslVars, feVars>>

\* Parsed checklists of the interleaved conversions: up to MaxConcStigs STIG
\* blocks, none included, of one vuln each.
ConcInputs ==
    {[asset |-> [hostName |-> "host"],
      stigs |-> [i \in 1..n |-> Stig(i, titles[i], 1)]] :
        n \in 0..MaxConcStigs, titles \in [1..MaxConcStigs -> StigTitles]}

InitConc ==
    /\ conv \in [Conversions -> {NewConversion(raw) : raw \in ConcInputs}]
    /\ parentCells = [c \in Conversions |-> <<>>]
    /\ PfIdle /\ TiIdle /\ GsIdle /\ HdfIdle /\ CaslIdle /\ FeIdle

NextConc == \E c \in Conversions : ConvStep(c)

SpecConc == InitConc /\ [][NextConc]_vars

-----------------------------------------------------------------------------
(* CaslAbilityFactory                                                      *)

\* enum Action: the values of its members.
Actions ==
    {"manage", "create", "read", "update", "delete", "read-all", "read-slim",
     "delete-no-password", "update-no-password", "skip-force-password-change",
     "update-role", "add-evaluation", "remove-evaluation", "view-statistics",
     "force-registration"}

\* A rule as can(...) and cannot(...) of AbilityBuilder record it.
Rule(inverted, actions, subject, conditions) ==
    [inverted |-> inverted, actions |-> actions, subject |-> subject,
     conditions |-> conditions]

\* The conditions objects of the factory, each with the user id it holds.
NoConditions == [kind |-> "none", id |-> 0]                  \* no third argument
IdIs(id) == [kind |-> "id", id |-> id]                       \* {id: user.id}
IsPublic == [kind |-> "public", id |-> 0]                    \* {public: true}
UsersIdIs(id) == [kind |-> "users.id", id |-> id]            \* {'users.id': user.id}
UsersHaveOwner(id) == [kind |-> "users.$elemMatch", id |-> id]
UserIdIs(id) == [kind |-> "userId", id |-> id]               \* {userId: user.id}
GroupsUsersIdIs(id) == [kind |-> "groups.users.id", id |-> id]
GroupsUsersHaveOwner(id) == [kind |-> "groups.users.$elemMatch", id |-> id]

\* Lines 61-68: the rules of an admin.
AdminRules(user) ==
    << Rule(FALSE, {"manage"}, "all", NoConditions),
       Rule(FALSE, {"view-statistics"}, "all", NoConditions),
       Rule(TRUE, {"manage"}, "User", IdIs(user.id)) >>

\* Lines 69-116: the rules of every user.
UserRules(user) ==
    << Rule(FALSE, {"read-slim"}, "User", NoConditions),
       Rule(FALSE, {"read", "update", "delete"}, "User", IdIs(user.id)),
       Rule(FALSE, {"create"}, "Group", NoConditions),
       Rule(FALSE, {"read"}, "Group", IsPublic),
       Rule(FALSE, {"read", "add-evaluation", "remove-evaluation"}, "Group",
            UsersIdIs(user.id)),
       Rule(FALSE, {"update"}, "Group", UsersHaveOwner(user.id)),
       Rule(FALSE, {"create"}, "Evaluation", NoConditions),
       Rule(FALSE, {"read"}, "Evaluation", IsPublic),
       Rule(FALSE, {"manage"}, "Evaluation", UserIdIs(user.id)),
       Rule(FALSE, {"read"}, "Evaluation", GroupsUsersIdIs(user.id)),
       Rule(FALSE, {"manage"}, "Evaluation", GroupsUsersHaveOwner(user.id)) >>

\* A createForUser that declares the admin's rules after the others.
createForUser_AdminRulesLast(user) ==
    UserRules(user) \o (IF user.role = "admin" THEN AdminRules(user) ELSE <<>>)

\* createForUser (lines 56-122): the rules in the order they are declared.
createForUser(user) ==
    (IF user.role = "admin" THEN AdminRules(user) ELSE <<>>) \o UserRules(user)

\* A createForAnonymous that declares can where the code has cannot.
createForAnonymous_Can == << Rule(FALSE, {"manage"}, "all", NoConditions) >>

\* createForAnonymous (lines 127-135).
createForAnonymous == << Rule(TRUE, {"manage"}, "all", NoConditions) >>

\* The conditions of a rule matched against an object, as a MongoDB query: a
\* dotted path through an array holds when it holds of some element.
Matches(conditions, object) ==
    CASE conditions.kind = "id" -> object.id = conditions.id
      [] conditions.kind = "public" -> object.public = TRUE
      [] conditions.kind = "users.id" ->
           \E i \in 1..Len(object.users) : object.users[i].id = conditions.id
      [] conditions.kind = "users.$elemMatch" ->
           \E i \in 1..Len(object.users) :
               object.users[i].id = conditions.id /\ object.users[i].role = "owner"
      [] conditions.kind = "userId" -> object.userId = conditions.id
      [] conditions.kind = "groups.users.id" ->
           \E g \in 1..Len(object.groups) : \E i \in 1..Len(object.groups[g].users) :
               object.groups[g].users[i].id = conditions.id
      [] conditions.kind = "groups.users.$elemMatch" ->
           \E g \in 1..Len(object.groups) : \E i \in 1..Len(object.groups[g].users) :
               /\ object.groups[g].users[i].id = conditions.id
               /\ object.groups[g].users[i].role = "owner"

\* Rule.matchesConditions of @casl/ability: a rule without conditions
\* matches; checked against a subject type, not an object, a rule with
\* conditions matches unless it is inverted.
MatchesConditions(rule, subject) ==
    IF rule.conditions.kind = "none" THEN TRUE
    ELSE IF subject.isType THEN ~rule.inverted
    ELSE Matches(rule.conditions, subject.object)

\* The rules relevant to an action on a subject: 'manage' stands for any
\* action and 'all' for any subject; the subject's type is its constructor
\* (detectSubjectType, lines 118-121).
IsRelevant(rule, action, subject) ==
    /\ action \in rule.actions \/ "manage" \in rule.actions
    /\ rule.subject = subject.type \/ rule.subject = "all"

\* Ability.can of @casl/ability: the last declared of the relevant rules
\* whose conditions match decides, and without one the answer is no.
Can(rules, action, subject) ==
    LET matching == {i \in 1..Len(rules) :
                        /\ IsRelevant(rules[i], action, subject)
                        /\ MatchesConditions(rules[i], subject)}
    IN  /\ matching # {}
        /\ ~rules[CHOOSE i \in matching : \A j \in matching : j <= i].inverted

\* The users that sign in.
UserInputs == {[id |-> id, role |-> role] : id \in 1..MaxUsers, role \in {"admin", "user"}}

\* The users of a group: none, or one user as member or as owner.
GroupUsersInputs ==
    {<<>>} \cup {<<[id |-> id, role |-> role]>> : id \in 1..MaxUsers, role \in {"member", "owner"}}

\* A subject that is a class, and a subject that is an object of a class.
SubjectType(type) == [type |-> type, isType |-> TRUE]
SubjectObject(type, object) == [type |-> type, isType |-> FALSE, object |-> object]

UserRecords == {SubjectObject("User", [id |-> id]) : id \in 1..MaxUsers}

GroupRecords ==
    {SubjectObject("Group", [public |-> public, users |-> users]) :
        public \in BOOLEAN, users \in GroupUsersInputs}

EvaluationRecords ==
    {SubjectObject("Evaluation", [public |-> public, userId |-> userId, groups |-> groups]) :
        public \in BOOLEAN, userId \in 1..MaxUsers,
        groups \in {<<>>} \cup {<<[users |-> users]>> : users \in GroupUsersInputs}}

SubjectInputs ==
    {SubjectType(type) : type \in {"User", "Group", "Evaluation"}}
    \cup UserRecords \cup GroupRecords \cup EvaluationRecords

\* Whoever has not signed in: the caller createForAnonymous is for.
Anonymous == [id |-> 0, role |-> "anonymous"]

\* createForUser(user) is called and builds the ability.
CreateForUser ==
    /\ caslPc = "start"
    /\ \E user \in UserInputs :
         /\ caslUser' = user
         /\ ability' = createForUser(user)
    /\ caslPc' = "built"
    /\ UNCHANGED <<caslQuery, caslAnswer, pfVars, tiVars, gsVars, hdfVars, concVars, feVars>>

\* createForAnonymous() is called and builds the ability.
CreateForAnonymous ==
    /\ caslPc = "start"
    /\ caslUser' = Anonymous
    /\ ability' = createForAnonymous
    /\ caslPc' = "built"
    /\ UNCHANGED <<caslQuery, caslAnswer, pfVars, tiVars, gsVars, hdfVars, concVars, feVars>>

\* ability.can(action, subject) is asked of the ability built.
AskCan ==
    /\ caslPc = "built"
    /\ caslPc' = "asked"
    /\ \E action \in Actions, subject \in SubjectInputs :
         /\ caslQuery' = [action |-> action, subject |-> subject]
         /\ caslAnswer' = Can(ability, action, subject)
    /\ UNCHANGED <<caslUser, ability, pfVars, tiVars, gsVars, hdfVars, concVars, feVars>>

InitCasl ==
    /\ caslPc = "start"
    /\ caslUser = <<>>
    /\ ability = <<>>
    /\ caslQuery = <<>>
    /\ caslAnswer = FALSE
    /\ PfIdle /\ TiIdle /\ GsIdle /\ HdfIdle /\ ConcIdle /\ FeIdle

NextCasl ==
    \/ CreateForUser
    \/ CreateForAnonymous
    \/ AskCan

SpecCasl == InitCasl /\ [][NextCasl]_vars

-----------------------------------------------------------------------------
(* The Search module and the status switches of data_filters               *)

\* Most terms one filter list of the Search module holds.
MaxTerms == 2

K_status == <<"s", "t", "a", "t", "u", "s">>
K_severity == <<"s", "e", "v", "e", "r", "i", "t", "y">>
K_impact == <<"i", "m", "p", "a", "c", "t">>
K_id == <<"i", "d">>
K_title == <<"t", "i", "t", "l", "e">>
K_nist == <<"n", "i", "s", "t">>
K_desc == <<"d", "e", "s", "c">>
K_description == K_desc \o <<"r", "i", "p", "t", "i", "o", "n">>
K_code == <<"c", "o", "d", "e">>
K_input == <<"i", "n", "p", "u", "t">>
K_ruleid == <<"r", "u", "l", "e", "i", "d">>
K_vulid == <<"v", "u", "l", "i", "d">>
K_stigid == <<"s", "t", "i", "g", "i", "d">>
K_classification ==
    <<"c", "l", "a", "s", "s", "i", "f", "i", "c", "a", "t", "i", "o", "n">>
K_groupname == <<"g", "r", "o", "u", "p", "n", "a", "m", "e">>
K_cci == <<"c", "c", "i">>
K_text == <<"t", "e", "x", "t">>

\* options.keywords of parseSearch.
Keywords ==
    { K_status, K_severity, K_impact, K_id, K_title, K_nist, K_desc,
      K_description, K_code, K_input, K_ruleid, K_vulid, K_stigid,
      K_classification, K_groupname, K_cci }

Status_Passed == S_Passed
Status_Failed == <<"F", "a", "i", "l", "e", "d">>
Status_NotApplicable == S_Not_Applicable
Status_NotReviewed == <<"N", "o", "t", " ", "R", "e", "v", "i", "e", "w", "e", "d">>
Status_Waived == <<"W", "a", "i", "v", "e", "d">>

\* lowercaseAll, on the terms of a string (one term) or of an array.
lowercaseAll(input) == [i \in 1..Len(input) |-> ToLowerCase(input[i])]

\* One property of the object parse returns. Its value is the sequence of
\* the terms given for the keyword: of length one where the library gives a
\* string, longer where it gives an array.
Prop(name, terms) == [prop |-> name, value |-> terms]

\* The keyword of a token "keyword:terms" of a search string, or undefined
\* for a token of free text.
KeywordOf(token) ==
    LET i == IndexOf(token, <<":">>)
    IN  IF i > 0 /\ Slice(token, 0, i) \in Keywords
        THEN Slice(token, 0, i) ELSE Undefined

\* The terms of a token "keyword:a,b".
TermsOf(token) == SplitStr(SliceFrom(token, IndexOf(token, <<":">>) + 1), <<",">>)

\* The properties with the terms added to the keyword's property, which is
\* appended when the keyword is new.
AddTerms(props, name, terms) ==
    IF \E i \in 1..Len(props) : props[i].prop = name
    THEN [i \in 1..Len(props) |->
            IF props[i].prop = name
            THEN Prop(name, props[i].value \o terms) ELSE props[i]]
    ELSE Append(props, Prop(name, terms))

RECURSIVE KeywordProps(_, _)
KeywordProps(tokens, props) ==
    IF tokens = <<>> THEN props
    ELSE LET token == Head(tokens)
         IN  KeywordProps(Tail(tokens),
                IF KeywordOf(token) = Undefined THEN props
                ELSE AddTerms(props, KeywordOf(token), TermsOf(token)))

\* parse(string, options) of search-query-parser for the queries of the
\* model, which are space-separated tokens, "keyword:term[,term]" or free
\* text: the string itself when it holds no keyword, and else an object with
\* the free text under text and the terms of each keyword present.
parse(string) ==
    LET tokens == SelectSeq(SplitStr(string, <<" ">>), LAMBDA t : t # EmptyStr)
        text == SelectSeq(tokens, LAMBDA t : KeywordOf(t) = Undefined)
        props == KeywordProps(tokens, <<>>)
    IN  IF props = <<>>
        THEN [isString |-> TRUE, string |-> string, props |-> <<>>]
        ELSE [isString |-> FALSE, string |-> EmptyStr,
              props |-> (IF text = <<>> THEN <<>>
                         ELSE <<Prop(K_text, <<Join(text, <<" ">>)>>)>>) \o props]

\* Search.clear: the nine CLEAR_ mutations it commits.
clear(state) ==
    [state EXCEPT !.severityFilter = EmptyArray,
                  !.statusFilter = EmptyArray,
                  !.controlIdSearchTerms = EmptyArray,
                  !.titleSearchTerms = EmptyArray,
                  !.NISTIdFilter = EmptyArray,
                  !.descriptionSearchTerms = EmptyArray,
                  !.codeSearchTerms = EmptyArray,
                  !.ruleidSearchTerms = EmptyArray,
                  !.freeSearch = EmptyStr]

\* The body of parseSearch's switch for one property of the parsed query.
AddFilter(state, prop, include) ==
    CASE prop = K_status -> [state EXCEPT !.statusFilter = @ \o include]
      [] prop = K_severity -> [state EXCEPT !.severityFilter = @ \o include]
      [] prop = K_id ->
            [state EXCEPT !.controlIdSearchTerms = @ \o lowercaseAll(include)]
      [] prop = K_title ->
            [state EXCEPT !.titleSearchTerms = @ \o lowercaseAll(include)]
      [] prop = K_nist -> [state EXCEPT !.NISTIdFilter = @ \o include]
      [] prop \in {K_desc, K_description} ->
            [state EXCEPT !.descriptionSearchTerms = @ \o lowercaseAll(include)]
      [] prop = K_code ->
            [state EXCEPT !.codeSearchTerms = @ \o lowercaseAll(include)]
      [] prop = K_ruleid ->
            [state EXCEPT !.ruleidSearchTerms = @ \o lowercaseAll(include)]
      [] prop = K_vulid ->
            [state EXCEPT !.vulidSearchTerms = @ \o lowercaseAll(include)]
      [] prop = K_stigid ->
            [state EXCEPT !.stigidSearchTerms = @ \o lowercaseAll(include)]
      [] prop = K_classification ->
            [state EXCEPT !.classificationSearchTerms = @ \o lowercaseAll(include)]
      [] prop = K_groupname ->
            [state EXCEPT !.groupNameSearchTerms = @ \o lowercaseAll(include)]
      [] prop = K_cci ->
            [state EXCEPT !.cciSearchTerms = @ \o lowercaseAll(include)]
      [] prop = K_text ->
            IF Len(include) = 1 THEN [state EXCEPT !.freeSearch = include[1]]
            ELSE state
      [] OTHER -> state

RECURSIVE AddFilters(_, _)
AddFilters(state, props) ==
    IF props = <<>> THEN state
    ELSE AddFilters(AddFilter(state, Head(props).prop, Head(props).value),
                    Tail(props))

\* Search.parseSearch: clear, then the filters of the parsed searchTerm.
parseSearch(state) ==
    LET cleared == clear(state)
        searchResult == parse(cleared.searchTerm)
    IN  IF searchResult.isString
        THEN [cleared EXCEPT !.freeSearch = searchResult.string]
        ELSE AddFilters(cleared, searchResult.props)

\* The mutations of the status filter.
ADD_STATUS(state, status) == [state EXCEPT !.statusFilter = @ \o status]
REMOVE_STATUS(state, status) ==
    [state EXCEPT !.statusFilter =
        SelectSeq(@, LAMBDA filter : ToLowerCase(filter) # ToLowerCase(status))]
SET_STATUS(state, status) == [state EXCEPT !.statusFilter = status]

\* The names of the fields of the Search state that hold filter terms.
FilterLists ==
    { "controlIdSearchTerms", "codeSearchTerms", "ruleidSearchTerms",
      "vulidSearchTerms", "stigidSearchTerms", "classificationSearchTerms",
      "groupNameSearchTerms", "cciSearchTerms", "NISTIdFilter",
      "descriptionSearchTerms", "statusFilter", "severityFilter",
      "titleSearchTerms" }

\* No filter list of the state is longer than the model follows.
WithinTerms(state) == \A list \in FilterLists : Len(state[list]) <= MaxTerms

\* The search strings typed into the search bar.
SearchInputs ==
    { EmptyStr,
      <<"a", "b">>,
      K_status \o <<":">> \o S_passed,
      K_status \o <<":">> \o Status_Failed \o <<" ">> \o K_vulid \o <<":", "A">>,
      K_stigid \o <<":", "a", ",", "b">> \o <<" ">> \o K_title \o <<":", "c", " ", "d">> }

\* The statuses the status switches and the status filter are used with.
SwitchStatuses ==
    {Status_Passed, Status_Failed, Status_NotApplicable, Status_NotReviewed}

\* The arrays given to setStatusFilter.
StatusArrays == {EmptyArray, <<Status_Passed>>, <<Status_Failed, Status_Passed>>}

\* Search.updateSearch(newValue): SET_SEARCH of the value, '' for none.
UpdateSearch ==
    /\ \E newValue \in SearchInputs \cup {Undefined} :
          search' = [search EXCEPT !.searchTerm =
                        IF Truthy(newValue) THEN newValue ELSE EmptyStr]
    /\ UNCHANGED <<switches, selVars, ctlVars, pfVars, tiVars, gsVars, hdfVars,
                   concVars, caslVars>>

\* Search.parseSearch().
ParseSearch ==
    /\ WithinTerms(parseSearch(search))
    /\ search' = parseSearch(search)
    /\ UNCHANGED <<switches, selVars, ctlVars, pfVars, tiVars, gsVars, hdfVars,
                   concVars, caslVars>>

\* Search.clear().
Clear ==
    /\ search' = clear(search)
    /\ UNCHANGED <<switches, selVars, ctlVars, pfVars, tiVars, gsVars, hdfVars,
                   concVars, caslVars>>

\* Search.addStatusFilter(status) with a single status.
AddStatusFilter ==
    /\ Len(search.statusFilter) < MaxTerms
    /\ \E status \in SwitchStatuses : search' = ADD_STATUS(search, <<status>>)
    /\ UNCHANGED <<switches, selVars, ctlVars, pfVars, tiVars, gsVars, hdfVars,
                   concVars, caslVars>>

\* Search.removeStatusFilter(status).
RemoveStatusFilter ==
    /\ \E status \in SwitchStatuses : search' = REMOVE_STATUS(search, status)
    /\ UNCHANGED <<switches, selVars, ctlVars, pfVars, tiVars, gsVars, hdfVars,
                   concVars, caslVars>>

\* Search.setStatusFilter(status).
SetStatusFilter ==
    /\ \E status \in StatusArrays : search' = SET_STATUS(search, status)
    /\ UNCHANGED <<switches, selVars, ctlVars, pfVars, tiVars, gsVars, hdfVars,
                   concVars, caslVars>>

\* The flag changeControlStatusSwitch(name) flips.
FlagOf(name) ==
    CASE name = Status_Passed -> "passedFilterEnabled"
      [] name = Status_Failed -> "failedFilterEnabled"
      [] name = Status_NotApplicable -> "naFilterEnabled"
      [] name = Status_NotReviewed -> "nrFilterEnabled"

\* changeControlStatusSwitch(name): the flag of the name is flipped, and the
\* name is added to the status filter when the flag became true and removed
\* from it when it became false.
changeControlStatusSwitch(name) ==
    /\ switches' = [switches EXCEPT ![FlagOf(name)] = ~@]
    /\ search' = IF ~switches[FlagOf(name)]
                 THEN ADD_STATUS(search, <<name>>)
                 ELSE REMOVE_STATUS(search, name)

ChangeControlStatusSwitch ==
    /\ \E name \in SwitchStatuses :
          /\ switches[FlagOf(name)] \/ Len(search.statusFilter) < MaxTerms
          /\ changeControlStatusSwitch(name)
    /\ UNCHANGED <<selVars, ctlVars, pfVars, tiVars, gsVars, hdfVars,
                   concVars, caslVars>>

InitSearch ==
    /\ search = SearchState /\ switches = FilterEnabledFlags
    /\ SelIdle /\ CtlIdle
    /\ PfIdle /\ TiIdle /\ GsIdle /\ HdfIdle /\ ConcIdle /\ CaslIdle

NextSearch ==
    \/ UpdateSearch
    \/ ParseSearch
    \/ Clear
    \/ AddStatusFilter
    \/ RemoveStatusFilter
    \/ SetStatusFilter
    \/ ChangeControlStatusSwitch

SpecSearch == InitSearch /\ [][NextSearch]_vars

-----------------------------------------------------------------------------
(* The selections of the FilteredData module                               *)

\* Ids of the files loaded in a run.
MaxFiles == 3
\* Most ids in the payload of one SELECT_EVALUATIONS or SELECT_PROFILES.
MaxPayload == 2

FileIDs == 1..MaxFiles

\* Array.prototype.includes.
Includes(array, value) == \E i \in 1..Len(array) : array[i] = value

\* [...new Set(array)]: the array without the later occurrences of a value.
RECURSIVE SetOf(_)
SetOf(array) ==
    IF array = <<>> THEN <<>>
    ELSE LET init == SetOf(SubSeq(array, 1, Len(array) - 1))
             last == array[Len(array)]
         IN  IF Includes(init, last) THEN init ELSE Append(init, last)

\* array.filter((id) => id !== removeId)
Without(array, removeId) == SelectSeq(array, LAMBDA id : id # removeId)

\* SELECT_EVALUATIONS with the ids concatenated and not passed through a Set.
SELECT_EVALUATIONS_Concat(state, files) ==
    [state EXCEPT !.selectedEvaluationIds = files \o @]

\* The mutations of FilteredData.
SELECT_EVALUATIONS(state, files) ==
    [state EXCEPT !.selectedEvaluationIds = SetOf(files \o @)]
SELECT_PROFILES(state, files) ==
    [state EXCEPT !.selectedProfileIds = SetOf(files \o @)]
SELECT_CHECKLIST(state, file) == [state EXCEPT !.selectedChecklistIds = <<file>>]
SELECT_RULE(state, rule) == [state EXCEPT !.selectedRule = rule]
CLEAR_EVALUATION(state, removeId) ==
    [state EXCEPT !.selectedEvaluationIds = Without(@, removeId)]
CLEAR_PROFILE(state, removeId) ==
    [state EXCEPT !.selectedProfileIds = Without(@, removeId)]
CLEAR_CHECKLIST(state, removeId) ==
    [state EXCEPT !.selectedChecklistIds = Without(@, removeId)]
CLEAR_ALL_EVALUATIONS(state) == [state EXCEPT !.selectedEvaluationIds = EmptyArray]
CLEAR_ALL_PROFILES(state) == [state EXCEPT !.selectedProfileIds = EmptyArray]
CLEAR_ALL_CHECKLISTS(state) == [state EXCEPT !.selectedChecklistIds = EmptyArray]

\* Trinary
On == "On"
Off == "Off"
Mixed == "Mixed"

\* The getters all_profiles_selected and all_evaluations_selected: a switch
\* on the number of selected ids, whose case 0 comes first.
all_profiles_selected(state, store) ==
    CASE Len(state.selectedProfileIds) = 0 -> Off
      [] Len(state.selectedProfileIds) = Len(store.allProfileFiles)
            /\ Len(state.selectedProfileIds) # 0 -> On
      [] OTHER -> Mixed

\* all_evaluations_selected with the number of loaded files tested first.
all_evaluations_selected_LengthFirst(state, store) ==
    CASE Len(state.selectedEvaluationIds) = Len(store.allEvaluationFiles) -> On
      [] Len(state.selectedEvaluationIds) = 0
            /\ Len(store.allEvaluationFiles) # 0 -> Off
      [] OTHER -> Mixed

all_evaluations_selected(state, store) ==
    CASE Len(state.selectedEvaluationIds) = 0 -> Off
      [] Len(state.selectedEvaluationIds) = Len(store.allEvaluationFiles)
            /\ Len(state.selectedEvaluationIds) # 0 -> On
      [] OTHER -> Mixed

\* The actions of FilteredData, as functions of its state.
toggle_all_evaluations(state, store) ==
    IF all_evaluations_selected(state, store) = On
    THEN CLEAR_ALL_EVALUATIONS(state)
    ELSE SELECT_EVALUATIONS(state, store.allEvaluationFiles)

toggle_all_profiles(state, store) ==
    IF all_profiles_selected(state, store) = On
    THEN CLEAR_ALL_PROFILES(state)
    ELSE SELECT_PROFILES(state, store.allProfileFiles)

select_exclusive_evaluation(state, fileID) ==
    SELECT_EVALUATIONS(CLEAR_ALL_EVALUATIONS(state), <<fileID>>)

select_exclusive_profile(state, fileID) ==
    SELECT_PROFILES(CLEAR_ALL_PROFILES(state), <<fileID>>)

toggle_evaluation(state, fileID) ==
    IF Includes(state.selectedEvaluationIds, fileID)
    THEN CLEAR_EVALUATION(state, fileID)
    ELSE SELECT_EVALUATIONS(state, <<fileID>>)

toggle_profile(state, fileID) ==
    IF Includes(state.selectedProfileIds, fileID)
    THEN CLEAR_PROFILE(state, fileID)
    ELSE SELECT_PROFILES(state, <<fileID>>)

toggle_checklist(state, fileID) ==
    IF Includes(state.selectedChecklistIds, fileID)
    THEN SELECT_RULE(CLEAR_CHECKLIST(state, fileID), emptyRule)
    ELSE SELECT_CHECKLIST(state, fileID)

clear_file(state, fileID) ==
    CLEAR_CHECKLIST(CLEAR_PROFILE(CLEAR_EVALUATION(state, fileID), fileID), fileID)

\* The ids of the loaded files of every kind.
LoadedIds(store) ==
    {store.allEvaluationFiles[i] : i \in 1..Len(store.allEvaluationFiles)}
    \cup {store.allProfileFiles[i] : i \in 1..Len(store.allProfileFiles)}
    \cup {store.allChecklistFiles[i] : i \in 1..Len(store.allChecklistFiles)}

\* The ids of an array of the store, as a set.
IdsOf(array) == {array[i] : i \in 1..Len(array)}

\* The rules of a loaded checklist file.
RulesOf(file) == {[vulnNum |-> <<"V", "-", n>>, file |-> file] : n \in {"1", "2"}}

\* A file is loaded: InspecDataModule appends it, under an id no loaded file
\* has, to the array of its kind. The selection is not changed.
LoadFile ==
    /\ \E id \in FileIDs \ LoadedIds(dataStore),
          kind \in {"allEvaluationFiles", "allProfileFiles", "allChecklistFiles"} :
          dataStore' = [dataStore EXCEPT ![kind] = Append(@, id)]
    /\ UNCHANGED <<fd, searchVars, ctlVars, pfVars, tiVars, gsVars, hdfVars,
                   concVars, caslVars>>

\* A file is removed: clear_file(fileID) drops it from the selections and
\* InspecDataModule drops it from its arrays.
RemoveFile ==
    /\ \E fileID \in LoadedIds(dataStore) :
          /\ fd' = clear_file(fd, fileID)
          /\ dataStore' =
                [kind \in DOMAIN dataStore |-> Without(dataStore[kind], fileID)]
    /\ UNCHANGED <<searchVars, ctlVars, pfVars, tiVars, gsVars, hdfVars,
                   concVars, caslVars>>

\* The operations below are given ids of loaded files of the kind they
\* select, as the views that call them do.

\* commit SELECT_EVALUATIONS(files)
SelectEvaluations ==
    /\ \E files \in SeqsUpTo(IdsOf(dataStore.allEvaluationFiles), MaxPayload) :
          fd' = SELECT_EVALUATIONS(fd, files)
    /\ UNCHANGED <<dataStore, searchVars, ctlVars, pfVars, tiVars, gsVars,
                   hdfVars, concVars, caslVars>>

\* commit SELECT_PROFILES(files)
SelectProfiles ==
    /\ \E files \in SeqsUpTo(IdsOf(dataStore.allProfileFiles), MaxPayload) :
          fd' = SELECT_PROFILES(fd, files)
    /\ UNCHANGED <<dataStore, searchVars, ctlVars, pfVars, tiVars, gsVars,
                   hdfVars, concVars, caslVars>>

\* commit CLEAR_EVALUATION(removeId) and commit CLEAR_PROFILE(removeId)
ClearEvaluation ==
    /\ \E removeId \in FileIDs : fd' = CLEAR_EVALUATION(fd, removeId)
    /\ UNCHANGED <<dataStore, searchVars, ctlVars, pfVars, tiVars, gsVars,
                   hdfVars, concVars, caslVars>>

ClearProfile ==
    /\ \E removeId \in FileIDs : fd' = CLEAR_PROFILE(fd, removeId)
    /\ UNCHANGED <<dataStore, searchVars, ctlVars, pfVars, tiVars, gsVars,
                   hdfVars, concVars, caslVars>>

\* commit CLEAR_ALL_EVALUATIONS, CLEAR_ALL_PROFILES, CLEAR_ALL_CHECKLISTS
ClearAllEvaluations ==
    /\ fd' = CLEAR_ALL_EVALUATIONS(fd)
    /\ UNCHANGED <<dataStore, searchVars, ctlVars, pfVars, tiVars, gsVars,
                   hdfVars, concVars, caslVars>>

ClearAllProfiles ==
    /\ fd' = CLEAR_ALL_PROFILES(fd)
    /\ UNCHANGED <<dataStore, searchVars, ctlVars, pfVars, tiVars, gsVars,
                   hdfVars, concVars, caslVars>>

ClearAllChecklists ==
    /\ fd' = CLEAR_ALL_CHECKLISTS(fd)
    /\ UNCHANGED <<dataStore, searchVars, ctlVars, pfVars, tiVars, gsVars,
                   hdfVars, concVars, caslVars>>

ToggleAllEvaluations ==
    /\ fd' = toggle_all_evaluations(fd, dataStore)
    /\ UNCHANGED <<dataStore, searchVars, ctlVars, pfVars, tiVars, gsVars,
                   hdfVars, concVars, caslVars>>

ToggleAllProfiles ==
    /\ fd' = toggle_all_profiles(fd, dataStore)
    /\ UNCHANGED <<dataStore, searchVars, ctlVars, pfVars, tiVars, gsVars,
                   hdfVars, concVars, caslVars>>

SelectExclusiveEvaluation ==
    /\ \E fileID \in IdsOf(dataStore.allEvaluationFiles) :
          fd' = select_exclusive_evaluation(fd, fileID)
    /\ UNCHANGED <<dataStore, searchVars, ctlVars, pfVars, tiVars, gsVars,
                   hdfVars, concVars, caslVars>>

SelectExclusiveProfile ==
    /\ \E fileID \in IdsOf(dataStore.allProfileFiles) :
          fd' = select_exclusive_profile(fd, fileID)
    /\ UNCHANGED <<dataStore, searchVars, ctlVars, pfVars, tiVars, gsVars,
                   hdfVars, concVars, caslVars>>

\* selectRule(rule), with a rule of the checklist that is selected.
SelectRule ==
    /\ fd.selectedChecklistIds # <<>>
    /\ \E rule \in RulesOf(fd.selectedChecklistIds[1]) :
          fd' = SELECT_RULE(fd, rule)
    /\ UNCHANGED <<dataStore, searchVars, ctlVars, pfVars, tiVars, gsVars,
                   hdfVars, concVars, caslVars>>

ToggleEvaluation ==
    /\ \E fileID \in IdsOf(dataStore.allEvaluationFiles) :
          fd' = toggle_evaluation(fd, fileID)
    /\ UNCHANGED <<dataStore, searchVars, ctlVars, pfVars, tiVars, gsVars,
                   hdfVars, concVars, caslVars>>

ToggleProfile ==
    /\ \E fileID \in IdsOf(dataStore.allProfileFiles) :
          fd' = toggle_profile(fd, fileID)
    /\ UNCHANGED <<dataStore, searchVars, ctlVars, pfVars, tiVars, gsVars,
                   hdfVars, concVars, caslVars>>

ToggleChecklist ==
    /\ \E fileID \in IdsOf(dataStore.allChecklistFiles) :
          fd' = toggle_checklist(fd, fileID)
    /\ UNCHANGED <<dataStore, searchVars, ctlVars, pfVars, tiVars, gsVars,
                   hdfVars, concVars, caslVars>>

\* clear_file(fileID) for a file that stays loaded.
ClearFile ==
    /\ \E fileID \in LoadedIds(dataStore) : fd' = clear_file(fd, fileID)
    /\ UNCHANGED <<dataStore, searchVars, ctlVars, pfVars, tiVars, gsVars,
                   hdfVars, concVars, caslVars>>

InitSelect ==
    /\ fd = FilteredDataState /\ dataStore = NoFiles
    /\ SearchIdle /\ CtlIdle
    /\ PfIdle /\ TiIdle /\ GsIdle /\ HdfIdle /\ ConcIdle /\ CaslIdle

NextSelect ==
    \/ LoadFile
    \/ RemoveFile
    \/ SelectEvaluations
    \/ SelectProfiles
    \/ ClearEvaluation
    \/ ClearProfile
    \/ ClearAllEvaluations
    \/ ClearAllProfiles
    \/ ClearAllChecklists
    \/ ToggleAllEvaluations
    \/ ToggleAllProfiles
    \/ SelectExclusiveEvaluation
    \/ SelectExclusiveProfile
    \/ SelectRule
    \/ ToggleEvaluation
    \/ ToggleProfile
    \/ ToggleChecklist
    \/ ClearFile

SpecSelect == InitSelect /\ [][NextSelect]_vars

-----------------------------------------------------------------------------
(* FilteredData.controls, its cache key and the control filters            *)

\* Calls to the control filters in a run.
MaxCalls == 2

MAX_CACHE_ENTRIES == 20

F_fromFile == <<"f", "r", "o", "m", "F", "i", "l", "e">>
F_status == K_status
F_severity == K_severity
F_omit_overlayed_controls ==
    <<"o", "m", "i", "t", "_", "o", "v", "e", "r", "l", "a", "y", "e", "d", "_",
      "c", "o", "n", "t", "r", "o", "l", "s">>
F_ids == <<"i", "d", "s">>
F_titleSearchTerms ==
    <<"t", "i", "t", "l", "e", "S", "e", "a", "r", "c", "h", "T", "e", "r", "m", "s">>
F_nistIdFilter ==
    <<"n", "i", "s", "t", "I", "d", "F", "i", "l", "t", "e", "r">>
F_searchTerm == <<"s", "e", "a", "r", "c", "h", "T", "e", "r", "m">>
F_control_id == <<"c", "o", "n", "t", "r", "o", "l", "_", "i", "d">>
F_descriptionSearchTerms ==
    <<"d", "e", "s", "c", "r", "i", "p", "t", "i", "o", "n", "S", "e", "a", "r",
      "c", "h", "T", "e", "r", "m", "s">>
F_codeSearchTerms ==
    <<"c", "o", "d", "e", "S", "e", "a", "r", "c", "h", "T", "e", "r", "m", "s">>

\* A Filter is the sequence of its own properties in the order they were
\* written. A property holds a string, an array of strings, a boolean or
\* undefined; a property the object does not have is not in the sequence.
StringProp(key, s) ==
    [key |-> key, kind |-> "string", str |-> s, arr |-> EmptyArray, flag |-> FALSE]
ArrayProp(key, a) ==
    [key |-> key, kind |-> "array", str |-> EmptyStr, arr |-> a, flag |-> FALSE]
BooleanProp(key, b) ==
    [key |-> key, kind |-> "boolean", str |-> EmptyStr, arr |-> EmptyArray, flag |-> b]
UndefinedProp(key) ==
    [key |-> key, kind |-> "undefined", str |-> EmptyStr, arr |-> EmptyArray,
     flag |-> FALSE]

Has(object, key) == \E i \in 1..Len(object) : object[i].key = key

\* object[key]: the property, the undefined one when the object has none.
PropOf(object, key) ==
    IF Has(object, key)
    THEN object[CHOOSE i \in 1..Len(object) : object[i].key = key]
    ELSE UndefinedProp(key)

\* object[key] = value: an own property keeps its place, a new one is last.
Assign(object, prop) ==
    IF Has(object, prop.key)
    THEN [i \in 1..Len(object) |->
            IF object[i].key = prop.key THEN prop ELSE object[i]]
    ELSE Append(object, prop)

\* {...object, ...source}
RECURSIVE Spread(_, _)
Spread(object, source) ==
    IF source = <<>> THEN object
    ELSE Spread(Assign(object, Head(source)), Tail(source))

\* The object without the property.
Omit(object, key) == SelectSeq(object, LAMBDA p : p.key # key)

\* String.prototype.trim, of the spaces of the model's strings.
RECURSIVE trim(_)
trim(s) ==
    IF s = <<>> THEN s
    ELSE IF Head(s) = " " THEN trim(Tail(s))
    ELSE IF s[Len(s)] = " " THEN trim(SubSeq(s, 1, Len(s) - 1))
    ELSE s

\* JSON.stringify of a string without characters to escape, of an array of
\* such strings, and of an object: a property holding undefined is left out.
Quoted(s) == <<"\"">> \o s \o <<"\"">>
S_true == <<"t", "r", "u", "e">>
S_false == <<"f", "a", "l", "s", "e">>

JSON_value(prop) ==
    CASE prop.kind = "string" -> Quoted(prop.str)
      [] prop.kind = "array" ->
            <<"[">> \o Join([i \in 1..Len(prop.arr) |-> Quoted(prop.arr[i])], <<",">>)
            \o <<"]">>
      [] prop.kind = "boolean" -> IF prop.flag THEN S_true ELSE S_false

JSON_stringify(object) ==
    LET present == SelectSeq(object, LAMBDA p : p.kind # "undefined")
    IN  <<"{">>
        \o Join([i \in 1..Len(present) |->
                    Quoted(present[i].key) \o <<":">> \o JSON_value(present[i])],
                <<",">>)
        \o <<"}">>

\* f.searchTerm?.trim() || ''
TrimmedSearchTerm(f) ==
    IF PropOf(f, F_searchTerm).kind = "string"
    THEN trim(PropOf(f, F_searchTerm).str) ELSE EmptyStr

\* filter_cache_key: the JSON text of the object literal that starts with
\* the two defaults and then spreads the filter over them.
filter_cache_key(f) ==
    JSON_stringify(
        Spread(<< StringProp(F_searchTerm, TrimmedSearchTerm(f)),
                  BooleanProp(F_omit_overlayed_controls,
                              PropOf(f, F_omit_overlayed_controls).flag) >>,
               f))

\* A contextualized control. The controls of the model are no overlays, so
\* that a control is its own root: severity, status and finding_details are
\* those of root.hdf, id, title, desc and code those of hdf.wraps and of
\* root.hdf.wraps, and extendedBy is the number of controls overlaying it.
\* title and desc are strings or null.
Control(file, id, title, severity, status, waived, extendedBy) ==
    [ file |-> file, id |-> id, title |-> title, desc |-> Null,
      full_code |-> <<"c", "o", "d", "e", " ">> \o id, rawNistTags |-> <<<<"A", "C", "-", "1">>>>,
      severity |-> severity, status |-> status, waived |-> waived,
      extendedBy |-> extendedBy, finding_details |-> EmptyStr ]

\* _.get(control, path) for the paths of controlFilters.
Get(control, path) ==
    CASE path = "root.hdf.severity" -> control.severity
      [] path = "hdf.wraps.id" -> control.id
      [] path = "hdf.wraps.title" -> control.title
      [] path = "hdf.wraps.desc" -> control.desc
      [] path = "hdf.rawNistTags" -> control.rawNistTags
      [] path = "full_code" -> control.full_code
      [] path = "hdf.waived" -> control.waived
      [] path = "root.hdf.status" -> control.status

\* What the value at a path is: a boolean, an array, null or a string.
TypeAt(control, path) ==
    IF path = "hdf.waived" THEN "boolean"
    ELSE IF path = "hdf.rawNistTags" THEN "array"
    ELSE IF Get(control, path) = Null THEN "null"
    ELSE "string"

\* One entry of the filters object given to filterControlsBy: an array of
\* terms, a boolean or undefined under a path.
ArrayFilter(path, terms) ==
    [path |-> path, kind |-> "array", terms |-> terms, flag |-> FALSE]
BooleanFilter(path, b) ==
    [path |-> path, kind |-> "boolean", terms |-> EmptyArray, flag |-> b]
UndefinedFilter(path) ==
    [path |-> path, kind |-> "undefined", terms |-> EmptyArray, flag |-> FALSE]

\* The filter's array under a key as an entry, undefined when it has none.
ArrayFilterOf(path, f, key) ==
    IF PropOf(f, key).kind = "array"
    THEN ArrayFilter(path, PropOf(f, key).arr) ELSE UndefinedFilter(path)

\* String.prototype.includes
StringIncludes(s, t) == IndexOf(s, t) >= 0

\* (compareValue) => compareValue.toLowerCase().includes(term.toLowerCase())
Comparator(compareValue, term) ==
    StringIncludes(ToLowerCase(compareValue), ToLowerCase(term))

\* What the callback of every gives for a control and an active filter:
\* TRUE, FALSE, or a TypeError where arrayOrStringIncludes calls some on
\* null.
FilterOutcome(control, filter) ==
    LET item == Get(control, filter.path)
        type == TypeAt(control, filter.path)
    IN  IF filter.kind = "array" /\ type # "boolean"
        THEN IF type = "null" THEN "TypeError"
             ELSE IF \E i \in 1..Len(filter.terms) :
                        IF type = "string" THEN Comparator(item, filter.terms[i])
                        ELSE \E j \in 1..Len(item) :
                                Comparator(item[j], filter.terms[i])
                  THEN "true" ELSE "false"
        ELSE IF filter.kind = "boolean" /\ type = "boolean" /\ item = filter.flag
             THEN "true" ELSE "false"

\* Object.entries(activeFilters).every(...) for one control: the outcome of
\* the first filter that does not give true.
RECURSIVE EveryOutcome(_, _)
EveryOutcome(control, activeFilters) ==
    IF activeFilters = <<>> THEN "true"
    ELSE IF FilterOutcome(control, Head(activeFilters)) # "true"
         THEN FilterOutcome(control, Head(activeFilters))
         ELSE EveryOutcome(control, Tail(activeFilters))

\* The result of a call: the controls returned, or a TypeError thrown.
Returned(controls) == [threw |-> FALSE, controls |-> controls]
Thrown == [threw |-> TRUE, controls |-> EmptyArray]

\* filterControlsBy
filterControlsBy(controls, filters) ==
    LET activeFilters ==
            SelectSeq(filters, LAMBDA f :
                \/ f.kind = "array" /\ Len(f.terms) > 0
                \/ f.kind = "boolean" /\ f.flag)
    IN  IF \E i \in 1..Len(controls) :
                EveryOutcome(controls[i], activeFilters) = "TypeError"
        THEN Thrown
        ELSE Returned(SelectSeq(controls, LAMBDA c :
                EveryOutcome(c, activeFilters) = "true"))

\* contains_term
contains_term(control, term) ==
    LET searchables ==
            SelectSeq(<<control.id, control.title, control.full_code,
                        control.severity, control.status, control.finding_details>>,
                      LAMBDA s : s # Null)
    IN  \E i \in 1..Len(searchables) :
            StringIncludes(ToLowerCase(searchables[i]), term)

\* The object controlFilters the getter builds from a filter.
controlFilters(f) ==
    << ArrayFilterOf("root.hdf.severity", f, F_severity),
       ArrayFilterOf("hdf.wraps.id", f, F_ids),
       ArrayFilterOf("hdf.wraps.title", f, F_titleSearchTerms),
       ArrayFilterOf("hdf.wraps.desc", f, F_descriptionSearchTerms),
       ArrayFilterOf("hdf.rawNistTags", f, F_nistIdFilter),
       ArrayFilterOf("full_code", f, F_codeSearchTerms),
       IF PropOf(f, F_status).kind = "array"
       THEN BooleanFilter("hdf.waived", Includes(PropOf(f, F_status).arr, Status_Waived))
       ELSE UndefinedFilter("hdf.waived"),
       ArrayFilter("root.hdf.status",
                   SelectSeq(PropOf(f, F_status).arr,
                             LAMBDA status : status # Status_Waived)) >>

\* The body of the function the controls getter returns, after a miss of
\* the cache and before the result is stored. The filters of the model
\* have no treeFilters.
ComputeControls(data, filter) ==
    LET fromFile == PropOf(filter, F_fromFile).arr
        contained == SelectSeq(data, LAMBDA c : Includes(fromFile, c.file))
        byId == IF PropOf(filter, F_control_id).kind # "undefined"
                THEN SelectSeq(contained,
                        LAMBDA c : c.id = PropOf(filter, F_control_id).str)
                ELSE contained
        filtered == filterControlsBy(byId, controlFilters(filter))
        kept == IF PropOf(filter, F_omit_overlayed_controls).flag
                THEN SelectSeq(filtered.controls, LAMBDA c : c.extendedBy = 0)
                ELSE filtered.controls
        found == IF PropOf(filter, F_searchTerm).kind # "undefined"
                 THEN SelectSeq(kept, LAMBDA c :
                        contains_term(c, ToLowerCase(PropOf(filter, F_searchTerm).str)))
                 ELSE kept
    IN  IF filtered.threw THEN Thrown ELSE Returned(found)

\* The LRU cache: its entries, the most recently used first.
CacheHas(cache, id) == \E i \in 1..Len(cache) : cache[i].key = id
CacheGet(cache, id) == cache[CHOOSE i \in 1..Len(cache) : cache[i].key = id].value
CacheTouch(cache, id) ==
    SelectSeq(cache, LAMBDA e : e.key = id) \o SelectSeq(cache, LAMBDA e : e.key # id)
CacheSet(cache, id, value) ==
    SubSeq(<<[key |-> id, value |-> value]>> \o SelectSeq(cache, LAMBDA e : e.key # id),
           1, Min(MAX_CACHE_ENTRIES, 1 + Len(SelectSeq(cache, LAMBDA e : e.key # id))))

\* The function the controls getter returns: the cache after the call and
\* what the call returned.
controls(cache, data, filter) ==
    LET id == filter_cache_key(filter)
        r == ComputeControls(data, filter)
    IN  IF CacheHas(cache, id)
        THEN [cache |-> CacheTouch(cache, id), result |-> Returned(CacheGet(cache, id))]
        ELSE IF r.threw THEN [cache |-> cache, result |-> r]
             ELSE [cache |-> CacheSet(cache, id, r.controls), result |-> r]

\* The number of the controls of a severity.
SeverityCount(cs, severity) ==
    Cardinality({i \in 1..Len(cs) : cs[i].severity = severity})

NoHash == [none |-> 0, low |-> 0, medium |-> 0, high |-> 0, critical |-> 0]
S_none == <<"n", "o", "n", "e">>

\* count_severities: the filter {status: [], ...filter} it asks controls for.
newFilter(filter) == Spread(<<ArrayProp(F_status, EmptyArray)>>, filter)

\* count_severities: the hash it returns, the controls counted by severity.
SeverityHash(cs) ==
    [ none |-> SeverityCount(cs, S_none), low |-> SeverityCount(cs, S_low),
      medium |-> SeverityCount(cs, S_medium), high |-> SeverityCount(cs, S_high),
      critical |-> SeverityCount(cs, S_critical) ]

\* The controls of the loaded files: passed, failed and not applicable
\* ones, waived or not, overlaid or not, one of them of a second file and
\* one without a title.
File1 == <<"1">>
File2 == <<"2">>

ControlSets ==
    { << Control(File1, <<"V", "-", "1">>, <<"A", "b">>, S_high, Status_Passed, FALSE, 0),
         Control(File1, <<"V", "-", "2">>, <<"b", "c">>, S_low, Status_Failed, TRUE, 0),
         Control(File1, <<"V", "-", "3">>, <<"c", "d">>, S_medium, Status_Passed, TRUE, 1),
         Control(File2, <<"V", "-", "4">>, <<"d", "e">>, S_high, Status_Failed, FALSE, 0) >>,
      << Control(File1, <<"V", "-", "1">>, <<"a", "b">>, S_low, Status_NotApplicable, TRUE, 0),
         Control(File1, <<"V", "-", "2">>, Null, S_high, Status_Passed, FALSE, 0) >> }

\* The filters the views ask controls for.
FromFile1 == <<ArrayProp(F_fromFile, <<File1>>)>>

StatusFilters ==
    { Append(FromFile1, ArrayProp(F_status, status)) :
        status \in { EmptyArray, <<Status_Passed>>, <<Status_Failed>>, <<Status_Waived>>,
                     <<Status_Passed, Status_Waived>> } }

SearchTermFilters ==
    { Append(FromFile1, StringProp(F_searchTerm, term)) :
        term \in {EmptyStr, <<" ">>, <<"v", "-", "1">>} }

FilterInputs ==
    {FromFile1}
    \cup StatusFilters
    \cup SearchTermFilters
    \cup { Append(FromFile1, BooleanProp(F_omit_overlayed_controls, b)) : b \in BOOLEAN }
    \cup { Append(FromFile1, ArrayProp(F_titleSearchTerms, <<<<"B">>>>)),
           Append(FromFile1, ArrayProp(F_nistIdFilter, <<<<"a", "c">>, <<"x">>>>)),
           <<ArrayProp(F_fromFile, <<File1, File2>>), ArrayProp(F_severity, <<S_high>>)>>,
           Append(FromFile1, StringProp(F_control_id, <<"V", "-", "2">>)) }

\* One call, with what it was given and what it gave back.
Call(fn, filter, filters, result, key, hash) ==
    [ fn |-> fn, filter |-> filter, filters |-> filters, threw |-> result.threw,
      controls |-> result.controls, key |-> key, hash |-> hash ]

\* FilteredDataModule.controls(filter)
Controls ==
    /\ Len(ctlCalls) < MaxCalls
    /\ \E filter \in FilterInputs :
          \E called \in {controls(localCache, ctlData, filter)} :
              /\ localCache' = called.cache
              /\ ctlCalls' = Append(ctlCalls,
                    Call("controls", filter, EmptyArray, called.result,
                         EmptyStr, NoHash))
    /\ UNCHANGED <<ctlData, searchVars, selVars, pfVars, tiVars, gsVars, hdfVars,
                   concVars, caslVars>>

\* count_severities(FilteredDataModule, filter)
CountSeverities ==
    /\ Len(ctlCalls) < MaxCalls
    /\ \E filter \in StatusFilters \cup {FromFile1} :
          \E asked \in {newFilter(filter)} :
              \E called \in {controls(localCache, ctlData, asked)} :
                  /\ localCache' = called.cache
                  /\ ctlCalls' = Append(ctlCalls,
                        Call("count_severities", filter, EmptyArray,
                             [threw |-> called.result.threw, controls |-> EmptyArray],
                             EmptyStr, SeverityHash(called.result.controls)))
    /\ UNCHANGED <<ctlData, searchVars, selVars, pfVars, tiVars, gsVars, hdfVars,
                   concVars, caslVars>>

\* filter_cache_key(f)
FilterCacheKey ==
    /\ Len(ctlCalls) < MaxCalls
    /\ \E f \in FilterInputs :
          ctlCalls' = Append(ctlCalls,
                Call("filter_cache_key", f, EmptyArray, Returned(EmptyArray),
                     filter_cache_key(f), NoHash))
    /\ UNCHANGED <<ctlData, localCache, searchVars, selVars, pfVars, tiVars, gsVars,
                   hdfVars, concVars, caslVars>>

\* filterControlsBy(controls, filters) with the loaded controls and the
\* filters object of a filter.
FilterControlsBy ==
    /\ Len(ctlCalls) < MaxCalls
    /\ \E f \in FilterInputs :
          ctlCalls' = Append(ctlCalls,
                Call("filterControlsBy", EmptyArray, controlFilters(f),
                     filterControlsBy(ctlData, controlFilters(f)), EmptyStr, NoHash))
    /\ UNCHANGED <<ctlData, localCache, searchVars, selVars, pfVars, tiVars, gsVars,
                   hdfVars, concVars, caslVars>>

InitControls ==
    /\ ctlData \in ControlSets /\ localCache = <<>> /\ ctlCalls = <<>>
    /\ SearchIdle /\ SelIdle
    /\ PfIdle /\ TiIdle /\ GsIdle /\ HdfIdle /\ ConcIdle /\ CaslIdle

NextControls ==
    \/ Controls
    \/ CountSeverities
    \/ FilterCacheKey
    \/ FilterControlsBy

SpecControls == InitControls /\ [][NextControls]_vars

-----------------------------------------------------------------------------
(* Properties of parseFindingDetails                                       *)

\* The segments of the input in loop order, each with its finding: the
\* separator-delimited pieces of every non-empty finding-details string.
SegmentsOf(findings) ==
    Concat([k \in 1..Len(findings) |->
              IF Truthy(findings[k].code_desc)
              THEN LET segs == SplitStr(findings[k].code_desc, Separator)
                   IN  [i \in 1..Len(segs) |->
                          [details |-> segs[i], finding |-> findings[k], split |-> TRUE]]
              ELSE <<[details |-> EmptyStr, finding |-> findings[k], split |-> FALSE]>>])

HasNewline(seg) == \E i \in 1..Len(seg) : seg[i] = NL

\* The first line of a segment (the whole segment when it has no newline) and
\* the remainder after the first newline (empty when there is none).
FirstLineOf(seg) ==
    IF HasNewline(seg)
    THEN SubSeq(seg, 1, (CHOOSE i \in 1..Len(seg) :
                            seg[i] = NL /\ \A j \in 1..(i - 1) : seg[j] # NL) - 1)
    ELSE seg
RemainderOf(seg) ==
    IF HasNewline(seg) THEN SubSeq(seg, Len(FirstLineOf(seg)) + 2, Len(seg)) ELSE EmptyStr

StatusWords == {S_passed, S_failed, S_skipped, S_error}

\* The status a status word stands for.
StatusOfWord(w) ==
    CASE w = S_passed -> Passed [] w = S_failed -> Failed
      [] w = S_skipped -> Skipped [] w = S_error -> Error

ContainsMarker(text) == IndexOf(text, ExpectedMarker) >= 0

\* The text before the first "\nexpected" and the text from its "expected" on.
BeforeMarker(text) == SubSeq(text, 1, IndexOf(text, ExpectedMarker))
FromExpected(text) == SubSeq(text, IndexOf(text, ExpectedMarker) + 2, Len(text))

AllFindingsNonEmpty == \A k \in 1..Len(pfFindings) : Truthy(pfFindings[k].code_desc)

S_foo_bar == <<"f", "o", "o", " ", "b", "a", "r">>
S_baz == <<"b", "a", "z">>
S_expected_1_actual_2 ==
    S_expected \o <<":", " ", "1", NL, "a", "c", "t", "u", "a", "l", ":", " ", "2">>

\* C1: for every segment whose first line is a status word and whose remainder
\* contains "\nexpected", the result's code_desc is exactly the remainder
\* before the marker and its message is the text starting at "expected"; the
\* spec's example string yields exactly {Passed, "foo bar"} and
\* {Failed, "baz", "expected: 1\nactual: 2"}.
C1_MarkerSplitsCodeDescFromMessage ==
    pfPhase = "returned" =>
        LET segs == SegmentsOf(pfFindings)
        IN  /\ \A i \in 1..Len(segs) :
                 (/\ segs[i].split
                  /\ FirstLineOf(segs[i].details) \in StatusWords
                  /\ ContainsMarker(RemainderOf(segs[i].details)))
                 => /\ pfResults[i].code_desc = BeforeMarker(RemainderOf(segs[i].details))
                    /\ pfResults[i].message = FromExpected(RemainderOf(segs[i].details))
            /\ (Len(pfFindings) = 1 /\ pfFindings[1].code_desc = SpecExample)
               => /\ Len(pfResults) = 2
                  /\ pfResults[1].status = Passed
                  /\ pfResults[1].code_desc = S_foo_bar
                  /\ pfResults[2].status = Failed
                  /\ pfResults[2].code_desc = S_baz
                  /\ pfResults[2].message = S_expected_1_actual_2

\* C2: when every finding-details string is non-empty, parseFindingDetails
\* completes without failure and returns exactly one result per
\* separator-delimited segment, in segment order (each result's code_desc is
\* text of its own segment), whatever the segments hold.
C2_OneResultPerSegment ==
    (pfPhase # "called" /\ AllFindingsNonEmpty) =>
        LET segs == SegmentsOf(pfFindings)
        IN  /\ pfPhase = "returned"
            /\ Len(pfResults) = Len(segs)
            /\ \A i \in 1..Len(segs) :
                 IndexOf(segs[i].details, pfResults[i].code_desc) >= 0

C8_FallbackToParentStatus ==
    pfPhase = "returned" =>
        LET segs == SegmentsOf(pfFindings)
        IN  \A i \in 1..Len(segs) :
              (segs[i].split /\ FirstLineOf(segs[i].details) \notin StatusWords)
              => /\ pfResults[i].code_desc = segs[i].details
                 /\ pfResults[i].message = Null
                 /\ pfResults[i].status = segs[i].finding.status

\* A returned call with a segment whose first line is "Passed" and whose
\* finding's status is not Passed.
C8_Witness ==
    /\ pfPhase = "returned"
    /\ LET segs == SegmentsOf(pfFindings)
       IN  \E i \in 1..Len(segs) :
             /\ segs[i].split
             /\ FirstLineOf(segs[i].details) = S_Passed
             /\ HasNewline(segs[i].details)
             /\ segs[i].finding.status = Failed
             /\ pfResults[i].status = Failed

-----------------------------------------------------------------------------
(* Properties of transformImpact                                           *)

SameLetter(c, d) == c = d \/ <<c, d>> \in CasePairs \/ <<d, c>> \in CasePairs

\* a and b are the same string when case is ignored.
EqualsIgnoringCase(a, b) ==
    /\ a # Undefined /\ b # Undefined
    /\ Len(a) = Len(b)
    /\ \A i \in 1..Len(a) : SameLetter(a[i], b[i])

\* The severity that counts: severityOverride when the vuln has one, else
\* severity.
EffectiveSeverity(vuln) ==
    IF Truthy(vuln.severityOverride) THEN vuln.severityOverride ELSE vuln.severity

\* The impact table of the spec, in tenths.
ImpactTable == {<<S_high, 7>>, <<S_medium, 5>>, <<S_low, 3>>}

SeverityIsMapped(sev) == \E e \in ImpactTable : EqualsIgnoringCase(sev, e[1])

\* C3: for a vuln whose status is not "Not Applicable", the impact is the
\* table value (high 0.7, medium 0.5, low 0.3, case ignored) of severityOverride
\* when present and of severity otherwise; {status "Open", severity "high",
\* severityOverride "low"} has impact 0.3.
C3_SeverityOverrideWins ==
    (tiPhase # "called" /\ tiVuln.status # S_Not_Applicable) =>
        \A e \in ImpactTable :
            EqualsIgnoringCase(EffectiveSeverity(tiVuln), e[1]) => tiImpact = Num(e[2])

\* C4: transformImpact returns 0.0 for every vuln whose status is
\* "Not Applicable", whatever its severity and severityOverride.
C4_NotApplicableIsZero ==
    (tiPhase # "called" /\ tiVuln.status = S_Not_Applicable) =>
        tiPhase = "returned" /\ tiImpact = Num(0)

\* A returned call on a "Not Applicable" vuln of severity "high".
C4_Witness ==
    /\ tiPhase = "returned"
    /\ tiVuln.status = S_Not_Applicable
    /\ tiVuln.severity = S_high
    /\ tiVuln.severityOverride = S_low
    /\ tiImpact = Num(0)

\* C5: for a vuln that is not "Not Applicable" and whose effective severity
\* has no entry in the impact table or is missing, transformImpact does not
\* fail and returns a number within 0.0-1.0, never undefined.
C5_UnmappedSeverityHasDefault ==
    (/\ tiPhase # "called"
     /\ tiVuln.status # S_Not_Applicable
     /\ ~SeverityIsMapped(EffectiveSeverity(tiVuln)))
    => /\ tiPhase = "returned"
       /\ tiImpact.kind = "number"
       /\ tiImpact.tenths \in 0..10

-----------------------------------------------------------------------------
(* Properties of getStatus                                                 *)

\* C6: getStatus never fails and, case ignored, gives Passed for "notafinding"
\* and "passed", Failed for "open" and "failed", Error for "error" and Skipped
\* for every other string.
C6_GetStatusTotal ==
    gsPhase # "called" =>
        /\ gsPhase = "returned"
        /\ gsOutput =
             (IF \/ EqualsIgnoringCase(gsInput, S_notafinding)
                 \/ EqualsIgnoringCase(gsInput, S_passed) THEN Passed
              ELSE IF \/ EqualsIgnoringCase(gsInput, S_open)
                      \/ EqualsIgnoringCase(gsInput, S_failed) THEN Failed
              ELSE IF EqualsIgnoringCase(gsInput, S_error) THEN Error
              ELSE Skipped)

\* getStatus("NotAFinding") has returned Passed.
C6_Witness ==
    gsPhase = "returned" /\ gsInput = S_NotAFinding /\ gsOutput = Passed

-----------------------------------------------------------------------------
(* Properties of ChecklistResults.toHdf                                    *)

NumberOfStigs == Len(checklistObject.stigs)

RECURSIVE SumOf(_)
SumOf(ns) == IF ns = <<>> THEN 0 ELSE Head(ns) + SumOf(Tail(ns))

\* C9: for a checklist of N > 1 STIGs, toHdf returns N + 1 profiles, one per
\* STIG in order and then the parent profile, whose depends list is exactly
\* [{name: child_1.name}, ..., {name: child_N.name}], one entry per child.
C9_ParentDependsOnEveryChild ==
    (hdfPc = "returned" /\ NumberOfStigs > 1) =>
        LET profiles == hdfResult.profiles
            N == NumberOfStigs
        IN  /\ Len(profiles) = N + 1
            /\ \A i \in 1..N : profiles[i].name = checklistObject.stigs[i].header.title
            /\ profiles[N + 1].name = parentProfileName
            /\ profiles[N + 1].depends = [i \in 1..N |-> [name |-> profiles[i].name]]

\* toHdf has returned for a checklist of three STIGs that do not all have the
\* same title.
C9_Witness ==
    /\ hdfPc = "returned"
    /\ NumberOfStigs = 3
    /\ checklistObject.stigs[1].header.title # checklistObject.stigs[2].header.title
    /\ Len(hdfResult.profiles[4].depends) = 3

\* C10: for a checklist of more than one STIG, the parent profile's controls
\* are the child profiles' controls concatenated in profile order, so that
\* their number is the sum of the children's control counts.
C10_ParentControlsConcatenated ==
    (hdfPc = "returned" /\ NumberOfStigs > 1) =>
        LET profiles == hdfResult.profiles
            N == NumberOfStigs
            parent == profiles[Len(profiles)]
        IN  /\ parent.controls = Concat([i \in 1..N |-> profiles[i].controls])
            /\ Len(parent.controls) = SumOf([i \in 1..N |-> Len(profiles[i].controls)])
            /\ \A i \in 1..N :
                 Len(profiles[i].controls) = Len(checklistObject.stigs[i].vulns)

\* toHdf has returned for the spec's example, two STIGs of 3 and 5 vulns, with
\* a parent profile of 8 controls.
C10_Witness ==
    /\ hdfPc = "returned"
    /\ checklistObject.stigs = ExampleChecklist.stigs
    /\ Len(hdfResult.profiles) = 3
    /\ Len(hdfResult.profiles[3].controls) = 8

\* C11: in the record toHdf returns for a checklist of more than one STIG,
\* every child profile has a parent_profile field equal to the name of the
\* parent profile, and the parent profile has no parent_profile field.
C11_ChildrenNameTheParent ==
    (hdfPc = "returned" /\ NumberOfStigs > 1) =>
        LET profiles == hdfResult.profiles
            N == NumberOfStigs
            parent == profiles[Len(profiles)]
        IN  /\ Len(profiles) = N + 1
            /\ \A i \in 1..N :
                 /\ "parent_profile" \in DOMAIN profiles[i]
                 /\ profiles[i].parent_profile = parent.name
            /\ "parent_profile" \notin DOMAIN parent

\* toHdf has returned three children that name the parent profile.
C11_Witness ==
    /\ hdfPc = "returned"
    /\ NumberOfStigs = 3
    /\ hdfResult.profiles[3].parent_profile = parentProfileName
    /\ hdfResult.profiles[4].name = parentProfileName

\* The structure of a profile: its depends entries, its controls and its
\* parent_profile field.
Structure(profile) ==
    [depends |-> GetField(profile, "depends"),
     controls |-> profile.controls,
     parent_profile |-> GetField(profile, "parent_profile")]

\* The serialization a profile's sha256 is the hash of.
HashedText(profile) == profile.sha256.sha256Of

\* toHdf is in, or has returned from, the branch that builds a parent profile.
InWrapperBranch ==
    \/ hdfPc \in {"loop", "depends", "controls", "parentField", "childHash",
                  "parentHash", "push"}
    \/ hdfPc = "returned" /\ NumberOfStigs # 1

\* C12: in toHdf for more than one STIG, once a profile's sha256 has been
\* assigned (lines 207 and 209) the profile's structure no longer changes:
\* in every later state, up to and in the record returned, the depends,
\* controls and parent_profile of each hashed child and of the hashed parent
\* are those of the serialization that was hashed.
C12_HashAfterLastStructuralChange ==
    /\ InWrapperBranch =>
          \A i \in 1..Len(original.profiles) :
              i < hdfIndex =>
                  Structure(HashedText(original.profiles[i])) = Structure(original.profiles[i])
    /\ (InWrapperBranch /\ hdfPc \in {"push", "returned"}) =>
          Structure(HashedText(parent_profile)) = Structure(parent_profile)
    /\ (InWrapperBranch /\ hdfPc = "returned") =>
          /\ hdfResult.profiles[Len(hdfResult.profiles)] = parent_profile
          /\ \A i \in 1..Len(hdfResult.profiles) :
                 Structure(HashedText(hdfResult.profiles[i])) =
                     Structure(hdfResult.profiles[i])

\* toHdf has returned two children, the first with controls, hashed with
\* their parent_profile field, and a parent hashed with both depends entries.
C12_Witness ==
    /\ hdfPc = "returned"
    /\ NumberOfStigs = 2
    /\ hdfResult.profiles[1].controls # <<>>
    /\ HashedText(hdfResult.profiles[1]).parent_profile = parentProfileName
    /\ Len(HashedText(hdfResult.profiles[3]).depends) = 2

\* C13 as the spec states it: in the record returned, a profile's sha256
\* depends on its controls list alone, so that two profiles with the same
\* controls have the same sha256 whatever their name, parent_profile or
\* earlier sha256.
C13_SameControlsSameHash ==
    hdfPc = "returned" =>
        LET profiles == hdfResult.profiles
        IN  \A i, j \in 1..Len(profiles) :
                profiles[i].controls = profiles[j].controls =>
                    profiles[i].sha256 = profiles[j].sha256

\* C13: in the record toHdf returns for a checklist of more than one STIG,
\* the sha256 of every profile, child or parent, is the hash of the whole
\* serialized profile as it stood when hashed: every field of the returned
\* profile other than sha256 is in the hashed text with the same value, and
\* the text's sha256 is the value the profile held before (the mapper's for
\* a child, '' for the parent). Two children with the same controls and
\* different names have different sha256 values.
C13_HashOfWholeProfile ==
    (hdfPc = "returned" /\ NumberOfStigs > 1) =>
        LET profiles == hdfResult.profiles
            N == NumberOfStigs
            mapped == BaseConverterToHdf(checklistObject).profiles
        IN  /\ \A i \in 1..(N + 1) :
                 LET text == HashedText(profiles[i])
                 IN  /\ DOMAIN text = DOMAIN profiles[i]
                     /\ \A f \in DOMAIN text \ {"sha256"} : text[f] = profiles[i][f]
                     /\ text.sha256 = IF i <= N THEN mapped[i].sha256 ELSE EmptyStr
            /\ \A i, j \in 1..N :
                 profiles[i].name # profiles[j].name =>
                     profiles[i].sha256 # profiles[j].sha256

\* toHdf has returned two children without controls and with different
\* names, whose sha256 values differ.
C13_Witness ==
    /\ hdfPc = "returned"
    /\ NumberOfStigs = 2
    /\ hdfResult.profiles[1].controls = hdfResult.profiles[2].controls
    /\ hdfResult.profiles[1].name # hdfResult.profiles[2].name
    /\ hdfResult.profiles[1].sha256 # hdfResult.profiles[2].sha256

\* A record holds a profile named as the parent profile is.
HasParentProfile(execution) ==
    \E i \in 1..Len(execution.profiles) : execution.profiles[i].name = parentProfileName

\* C14: toHdf builds the parent profile if and only if the checklist has
\* more than one STIG: the branch that builds it is only entered with more
\* than one, the record returned holds a parent exactly then, and with
\* exactly one STIG the record is the mapper's, unmodified, with one profile
\* that has no parent_profile field.
C14_ParentIffMoreThanOneStig ==
    /\ (InWrapperBranch /\ hdfPc # "returned") => NumberOfStigs > 1
    /\ hdfPc = "returned" =>
          /\ HasParentProfile(hdfResult) <=> NumberOfStigs > 1
          /\ NumberOfStigs > 1 => Len(hdfResult.profiles) = NumberOfStigs + 1
          /\ NumberOfStigs = 1 =>
                /\ hdfResult = BaseConverterToHdf(checklistObject)
                /\ Len(hdfResult.profiles) = 1
                /\ "parent_profile" \notin DOMAIN hdfResult.profiles[1]

\* toHdf has returned for a checklist of one STIG with vulns.
C14_Witness ==
    /\ hdfPc = "returned"
    /\ NumberOfStigs = 1
    /\ checklistObject.stigs[1].vulns # <<>>
    /\ Len(hdfResult.profiles) = 1

\* The parsed checklist lacks its asset section or has no STIG block.
IsMalformed(raw) == "asset" \notin DOMAIN raw \/ raw.stigs = <<>>

\* C15: a checklist with no STIG block, or with no asset, never produces an
\* output record: its conversion gets no further than the constructor, which
\* fails with MalformedChecklistError, so that no checklist object is stored,
\* toHdf is never entered and no record is returned.
C15_MalformedNeverConverts ==
    IsMalformed(hdfRaw) =>
        /\ hdfPc \in {"new", "malformed"}
        /\ checklistObject = <<>>
        /\ hdfResult = <<>>

\* The constructor has failed on a checklist that has an asset and no STIG
\* block.
C15_Witness ==
    /\ hdfPc = "malformed"
    /\ "asset" \in DOMAIN hdfRaw
    /\ hdfRaw.stigs = <<>>

\* C16: converting the same input twice, by a second toHdf call on the
\* instance or by a new ChecklistResults on the same parsed checklist,
\* returns a record identical to the first, sha256 values included.
C16_SecondConversionIdentical ==
    (hdfPc = "returned" /\ hdfRuns > 1) => hdfResult = hdfPrev

\* A second conversion of a checklist of two STIGs with vulns has returned,
\* parent profile and hashes as in the first.
C16_Witness ==
    /\ hdfPc = "returned"
    /\ hdfRuns = 2
    /\ NumberOfStigs = 2
    /\ checklistObject.stigs[1].vulns # <<>>
    /\ Len(hdfPrev.profiles) = 3
    /\ hdfResult.profiles[3].sha256 = hdfPrev.profiles[3].sha256

\* C17: the record toHdf returns has one profile per STIG in the order of
\* the input's stigs (the parent profile, if any, after them), and profile i
\* has one control per vuln of STIG i in the order of its vulns: control j of
\* profile i is the mapping of vuln j of STIG i, under that vuln's id.
C17_OutputOrderFollowsInput ==
    hdfPc = "returned" =>
        LET profiles == hdfResult.profiles
            stigs == checklistObject.stigs
        IN  /\ Len(profiles) >= Len(stigs)
            /\ \A i \in 1..Len(stigs) :
                 /\ profiles[i].name = stigs[i].header.title
                 /\ Len(profiles[i].controls) = Len(stigs[i].vulns)
                 /\ \A j \in 1..Len(stigs[i].vulns) :
                      /\ profiles[i].controls[j].id = stigs[i].vulns[j].vulnNum
                      /\ profiles[i].controls[j] = MapControl(stigs[i].vulns[j])

\* toHdf has returned for three STIGs, the first two of different titles and
\* of two vulns and none, with the second vuln of the first STIG as the second
\* control of the first profile.
C17_Witness ==
    /\ hdfPc = "returned"
    /\ NumberOfStigs = 3
    /\ checklistObject.stigs[1].header.title # checklistObject.stigs[2].header.title
    /\ Len(checklistObject.stigs[1].vulns) = 2
    /\ checklistObject.stigs[2].vulns = <<>>
    /\ hdfResult.profiles[1].controls[2].id = <<"V", 1, 2>>

\* The state in which a conversion that runs on its own ends.
RECURSIVE RunAlone(_, _)
RunAlone(s, parent) ==
    IF s.pc \in {"returned", "malformed"}
    THEN s
    ELSE LET next == StepOf(s, parent) IN RunAlone(next.s, next.parent)

Alone(raw) == RunAlone(NewConversion(raw), <<>>)

\* C18: two conversions interleaved statement by statement share no mutable
\* state: each ends as it would alone, failing exactly when it would and
\* returning the record it would return alone, and the checklist object of
\* each stays the one its constructor built from its own input.
C18_InterleavedConversionsIndependent ==
    \A c \in Conversions :
        /\ conv[c].pc = "malformed" => Alone(conv[c].raw).pc = "malformed"
        /\ conv[c].pc \notin {"new", "malformed"} =>
              conv[c].checklistObject = createChecklistObject(conv[c].raw)
        /\ conv[c].pc = "returned" =>
              /\ Alone(conv[c].raw).pc = "returned"
              /\ conv[c].result = Alone(conv[c].raw).result

\* Two conversions of different checklists of two STIGs each: the first is
\* inside its loop, its parent profile holding one depends entry, when the
\* second has returned its record.
C18_Witness ==
    /\ conv[1].raw # conv[2].raw
    /\ Len(conv[1].raw.stigs) = 2
    /\ Len(conv[2].raw.stigs) = 2
    /\ conv[1].pc = "controls"
    /\ Len(parentCells[1].depends) = 1
    /\ conv[2].pc = "returned"
    /\ Len(conv[2].result.profiles) = 3

-----------------------------------------------------------------------------
(* Properties of CaslAbilityFactory                                        *)

\* The subject is the User record of the user the ability was built for.
IsOwnUserRecord(subject) ==
    /\ subject.type = "User"
    /\ ~subject.isType
    /\ subject.object.id = caslUser.id

\* The actions an admin may take on the admin's own User record.
OwnRecordActions == {"read", "read-slim", "update", "delete"}

\* C19: the ability createForUser builds for an admin allows every action on
\* every subject, except on the admin's own User record, where it allows
\* read, read-slim, update and delete and denies every other action, among
\* them update-no-password and delete-no-password, which it allows on the
\* record of every other user. Every answer given agrees.
C19_AdminAllButOwnRecord ==
    (caslPc \in {"built", "asked"} /\ caslUser.role = "admin") =>
        /\ \A action \in Actions, subject \in SubjectInputs :
              Can(ability, action, subject) <=>
                  (IsOwnUserRecord(subject) => action \in OwnRecordActions)
        /\ caslPc = "asked" =>
              (caslAnswer <=>
                  (IsOwnUserRecord(caslQuery.subject) => caslQuery.action \in OwnRecordActions))

\* An admin has asked for update-no-password on the admin's own record and
\* been denied.
C19_Witness ==
    /\ caslPc = "asked"
    /\ caslUser.role = "admin"
    /\ caslQuery.action = "update-no-password"
    /\ IsOwnUserRecord(caslQuery.subject)
    /\ ~caslAnswer

\* C20: the ability createForAnonymous builds allows no action on any
\* subject, class or record, and every answer given is no.
C20_AnonymousAllowsNothing ==
    (caslPc \in {"built", "asked"} /\ caslUser = Anonymous) =>
        /\ \A action \in Actions, subject \in SubjectInputs : ~Can(ability, action, subject)
        /\ ~caslAnswer

\* The anonymous ability has been asked for read on a public evaluation and
\* has denied it.
C20_Witness ==
    /\ caslPc = "asked"
    /\ caslUser = Anonymous
    /\ caslQuery.action = "read"
    /\ caslQuery.subject.type = "Evaluation"
    /\ ~caslQuery.subject.isType
    /\ caslQuery.subject.object.public
    /\ ~caslAnswer

-----------------------------------------------------------------------------
(* Properties of the Search module and the status switches                 *)

\* Every filter list of the state is empty and its free search is ''.
AllFiltersCleared(state) ==
    /\ \A list \in FilterLists : state[list] = EmptyArray
    /\ state.freeSearch = EmptyStr

\* C21: Search.clear clears all filters: after a clear the status, severity,
\* control-id, title, NIST, description, code, ruleid, vulid, stigid,
\* classification, groupname and cci lists are empty and freeSearch is '';
\* and as parseSearch starts with a clear, the filters after a parseSearch
\* are those a Search with no filter at all gets from the same searchTerm.
C21_ClearEmptiesEveryFilter ==
    [][ /\ Clear => AllFiltersCleared(search')
        /\ ParseSearch =>
              search' = parseSearch([SearchState EXCEPT
                                        !.searchTerm = search.searchTerm])
      ]_vars

\* The name is one of the terms of the status filter.
InStatusFilter(name) ==
    \E i \in 1..Len(search.statusFilter) : search.statusFilter[i] = name

\* C30: however changeControlStatusSwitch is interleaved with parseSearch,
\* clear, addStatusFilter, removeStatusFilter and setStatusFilter, each
\* switch flag agrees with the status filter: passedFilterEnabled is true
\* exactly when 'Passed' is in statusFilter, and likewise the flags of
\* Failed, Not Applicable and Not Reviewed.
C30_SwitchFlagsAgreeWithStatusFilter ==
    \A name \in SwitchStatuses : switches[FlagOf(name)] <=> InStatusFilter(name)

-----------------------------------------------------------------------------
(* Properties of the selections of FilteredData                            *)

\* Every file of the loaded array is among the selected ids.
AllSelected(selected, loaded) ==
    \A i \in 1..Len(loaded) : Includes(selected, loaded[i])

\* The getter's value is On exactly when every loaded file is selected, Off
\* when none is selected, and Mixed in every other case.
OnWhenAllSelected(value, selected, loaded) ==
    /\ value = On <=> AllSelected(selected, loaded)
    /\ selected = EmptyArray => value = Off
    /\ ~AllSelected(selected, loaded) /\ selected # EmptyArray => value = Mixed

OffWhenNoneSelected(value, selected, loaded) ==
    /\ value = Off <=> selected = EmptyArray
    /\ value = On <=> selected # EmptyArray /\ AllSelected(selected, loaded)
    /\ value = Mixed <=> selected # EmptyArray /\ ~AllSelected(selected, loaded)

NoDuplicate(array) ==
    \A i, j \in 1..Len(array) : array[i] = array[j] => i = j

\* C28: after any sequence of SELECT_EVALUATIONS, SELECT_PROFILES, CLEAR_*,
\* toggle_*, select_exclusive_* and clear_file, neither
\* selectedEvaluationIds nor selectedProfileIds holds an id twice.
C28_SelectedIdsHaveNoDuplicate ==
    /\ NoDuplicate(fd.selectedEvaluationIds)
    /\ NoDuplicate(fd.selectedProfileIds)

\* Two evaluations and a profile are selected.
C28_Witness ==
    /\ Len(fd.selectedEvaluationIds) = 2
    /\ Len(fd.selectedProfileIds) = 1

\* C29: whenever selectedChecklistIds is empty the selected rule is the
\* empty rule, so that deselecting a checklist by toggle_checklist,
\* clear_file or CLEAR_ALL_CHECKLISTS, each of which leaves
\* selectedChecklistIds empty, never leaves a rule of that checklist
\* selected.
C29_NoChecklistNoRule ==
    fd.selectedChecklistIds = EmptyArray => fd.selectedRule = emptyRule

-----------------------------------------------------------------------------
(* Properties of the control filters                                       *)

\* The positions in ctlCalls of the calls of a function.
CallsOf(fn) == {i \in 1..Len(ctlCalls) : ctlCalls[i].fn = fn}

\* C22: count_severities removes the status filter before it counts: two
\* filters that differ only in their status field get the same severity
\* counts.
C22_SeverityCountsIgnoreStatus ==
    \A i, j \in CallsOf("count_severities") :
        Omit(ctlCalls[i].filter, F_status) = Omit(ctlCalls[j].filter, F_status)
            => ctlCalls[i].hash = ctlCalls[j].hash

\* The filter without a searchTerm that is empty or only spaces and without
\* an omit_overlayed_controls that is false.
Annihilated(f) ==
    SelectSeq(f, LAMBDA p :
        /\ ~(p.key = F_searchTerm /\ p.kind = "string" /\ trim(p.str) = EmptyStr)
        /\ ~(p.key = F_omit_overlayed_controls /\ p.kind = "boolean" /\ ~p.flag))

\* C23: filter_cache_key annihilates empty search terms and defaults
\* omit_overlayed_controls: two filters that are equal except that one has
\* no searchTerm and the other an empty or whitespace-only one, or that one
\* has no omit_overlayed_controls and the other has it false, get the same
\* key.
C23_KeyAnnihilatesEmptySearchTerm ==
    \A i, j \in CallsOf("filter_cache_key") :
        Annihilated(ctlCalls[i].filter) = Annihilated(ctlCalls[j].filter)
            => ctlCalls[i].key = ctlCalls[j].key

\* C24: a query of FilteredData.controls with a searchTerm that is not null
\* is not cached: after such a call the cache holds no entry for its filter.
C24_SearchTermQueriesNotCached ==
    \A i \in CallsOf("controls") :
        i = Len(ctlCalls) /\ PropOf(ctlCalls[i].filter, F_searchTerm).kind = "string"
            => ~CacheHas(localCache, filter_cache_key(ctlCalls[i].filter))

\* A control is admitted by a status list when the list is empty, when the
\* control's status is listed, or when 'Waived' is listed and the control
\* is waived.
Admitted(control, statuses) ==
    \/ statuses = EmptyArray
    \/ Includes(statuses, control.status)
    \/ Includes(statuses, Status_Waived) /\ control.waived

\* C25: for a filter of files and statuses, controls returns a control of
\* the files exactly when its status is one of the listed statuses, where
\* 'Waived' admits the waived controls: ['Passed', 'Waived'] gives the
\* controls that are Passed or waived, and an undefined or empty status
\* gives the controls of any status.
C25_StatusListIsAUnion ==
    \A i \in CallsOf("controls") :
        LET filter == ctlCalls[i].filter
        IN  filter \in StatusFilters \cup {FromFile1} =>
                /\ ~ctlCalls[i].threw
                /\ ctlCalls[i].controls =
                      SelectSeq(ctlData, LAMBDA c :
                          /\ Includes(PropOf(filter, F_fromFile).arr, c.file)
                          /\ Admitted(c, PropOf(filter, F_status).arr))

\* An active array filter is satisfied by a value when one of its terms is,
\* case aside, a substring of the value or of one of its elements, and an
\* active boolean filter when the value equals it.
Satisfies(control, filter) ==
    LET type == TypeAt(control, filter.path)
        value == Get(control, filter.path)
    IN  IF filter.kind = "array"
        THEN \E i \in 1..Len(filter.terms) :
                \/ type = "string" /\ Comparator(value, filter.terms[i])
                \/ type = "array" /\ \E j \in 1..Len(value) :
                                        Comparator(value[j], filter.terms[i])
        ELSE type = "boolean" /\ value = filter.flag

\* A filter is active when it is a non-empty array or the boolean true.
Active(filter) ==
    \/ filter.kind = "array" /\ filter.terms # EmptyArray
    \/ filter.kind = "boolean" /\ filter.flag

\* C26: filterControlsBy returns, in the order given, exactly the controls
\* that satisfy every active filter.
C26_ExactlyTheControlsSatisfyingEveryFilter ==
    \A i \in CallsOf("filterControlsBy") :
        /\ ~ctlCalls[i].threw
        /\ ctlCalls[i].controls =
              SelectSeq(ctlData, LAMBDA c :
                  \A k \in 1..Len(ctlCalls[i].filters) :
                      Active(ctlCalls[i].filters[k])
                          => Satisfies(c, ctlCalls[i].filters[k]))

====
